---------------------------- MODULE Spec2Model ----------------------------
(***************************************************************************)
(* A model of the Cozy synthesis engine (sanidhya/cozy):                   *)
(*                                                                         *)
(*   Spec      the synthesis driver improve_implementation                 *)
(*             (cozy/synthesis/high_level_interface.py): the main thread,  *)
(*             the improvement jobs and the result channel, acting on an   *)
(*             Implementation (cozy/synthesis/impls.py).                   *)
(*   FairSpec  Spec with the fairness the scheduler gives the jobs and     *)
(*             the main thread.                                            *)
(*   SpecCode  one evaluation of Implementation.code                       *)
(*             (cozy/synthesis/impls.py).                                  *)
(*   SpecFresh concurrent callers of fresh_name (cozy/common.py).          *)
(*   SpecImpl  construct_initial_implementation and calls of the           *)
(*             Implementation's methods (cozy/synthesis/impls.py).         *)
(*   SpecTypecheck  one call of typecheck (cozy/typecheck.py).             *)
(*   SpecSubst      one call of subst (cozy/syntax_tools.py).              *)
(*   SpecSubstMethod  subst on a method of a Spec.                         *)
(*   SpecAlpha      calls of alpha_equivalent (cozy/syntax_tools.py).      *)
(*   SpecFragments  one call of enumerate_fragments                        *)
(*                  (cozy/syntax_tools.py).                                *)
(*   SpecSimplify   one call of simplify (cozy/simplification.py).         *)
(*   SpecShared     improve_implementation and the Query objects it        *)
(*                  shares with its caller.                                *)
(*   SpecLog2       one call of integer_log2_round_up (cozy/common.py).    *)
(***************************************************************************)
EXTENDS Integers, Sequences, FiniteSets, TLC

(***************************************************************************)
(* Bounds of the model.                                                    *)
(***************************************************************************)
\* expressions the enumerators yield in one run of the driver, over all jobs
\* (each job hands its query's own body to the callback first, on top of these)
MaxCandidates == 1
\* sub-queries sketch_update may discover during one run of the driver
MaxSubqueries == 1

VARIABLES
    \* ---- the Implementation (impls.py:80-85), a record with the fields
    \*   concrete_state  sequence of <<state variable, projection>>
    \*   query_specs     sequence of queries <<kind, number, ret, argument names>>
    \*   query_impls     query -> [reads, calls, cand]
    \*   updates         <<state var, op name>> -> the calls <<query, arguments>> of the statement
    \*   handle_updates  <<handle type, op name>> -> the calls of the statement
    impl,
    \* ---- improve_implementation (high_level_interface.py:117-252) ----
    improvement_jobs, \* sequence of job (= query) names
    job,              \* query name -> [pc, stop_requested, produced, observed]
    yielded,          \* expressions the enumerators have yielded so far
    solutions_q,      \* the result channel: sequence of [q, cand]
    pc,               \* position of the main thread
    done,             \* the local `done`
    timedOut,         \* what timeout.is_timed_out() answers from now on
    improvements,     \* the sorted results of the batch still to consider
    next_sub,         \* the next fresh sub-query name
    \* ---- history variables (not read by any action's guard) ----
    results,          \* the batch last drained
    applied,          \* the results of that batch handed to set_impl so far
    specs_at_sort,    \* query_specs when the batch was sorted
    last_completed,   \* the Implementation after the last completed cleanup
    \* ---- Implementation.code (impls.py:211-291): a record, see CodeInit ----
    code,
    \* ---- fresh_name (common.py:272-283): a record, see FreshInit ----
    fresh,
    \* ---- the option deduplicate-subqueries (impls.py:25) ----
    dedup_queries,
    \* ---- calls of the Implementation's methods (impls.py): a record, see ImplInit ----
    api,
    \* ---- the argument and the result of a call of typecheck or subst
    \*      (typecheck.py, syntax_tools.py): a record, see TcInit and SubstInit ----
    pure

jobVars  == <<improvement_jobs, job, solutions_q, yielded>>
mainVars == <<pc, done, improvements, next_sub>>
histVars == <<results, applied, specs_at_sort, last_completed>>
driverVars == <<impl, dedup_queries, jobVars, mainVars, timedOut, histVars>>
vars     == <<driverVars, code, fresh, api, pure>>

(***************************************************************************)
(* Helpers on sequences.                                                   *)
(***************************************************************************)
Names(s) == {s[i] : i \in DOMAIN s}

RECURSIVE RemoveFirst(_, _)
\* list.remove(x): removes the first occurrence
RemoveFirst(s, x) ==
    IF s = <<>> THEN <<>>
    ELSE IF Head(s) = x THEN Tail(s)
    ELSE <<Head(s)>> \o RemoveFirst(Tail(s), x)

NoDuplicates(s) == \A i, j \in DOMAIN s : s[i] = s[j] => i = j

\* the defensive copy reads a defaultdict(SNoOp): a missing key is a no-op
Get(f, k) == IF k \in DOMAIN f THEN f[k] ELSE {}

(***************************************************************************)
(* Names.  A query is <<kind, i, body, args>>: kind and i name it (the     *)
(* user's queries, and the Internal sub-queries, whose names come from     *)
(* fresh_name), body stands for what its ret computes and args is the      *)
(* sequence of its argument names.  A concrete state variable is           *)
(* <<q, n>>: the n-th variable made for an implementation of q.            *)
(***************************************************************************)
PublicQueries == {<<"pub", 1, 0, <<>>>>}
SubQuery(i)   == <<"sub", i, i, <<>>>>
AllQueries    == PublicQueries \cup {SubQuery(i) : i \in 1..MaxSubqueries}
Visibility(q) ==
    IF q[1] = "pub" THEN "Public" ELSE IF q[1] = "priv" THEN "Private" ELSE "Internal"
OpNames       == {"op"}
NoSub         == <<"none", 0, 0, <<>>>>
NoVar         == <<NoSub, 0>>
Var(q, n)     == <<q, n>>

\* the value of a part of the model that a specification leaves out
CodeIdle  == [pc |-> "idle"]
FreshIdle == [pc |-> "idle"]
ApiIdle   == [pc |-> "idle"]
PureIdle  == [pc |-> "idle"]

(***************************************************************************)
(* The Implementation (impls.py).                                          *)
(*   concrete_state  sequence of pairs <<v, e>>; the projection e is       *)
(*                   <<type, meaning>>                                     *)
(*   query_specs     sequence of queries                                   *)
(*   query_impls     query -> [reads, calls, cand]: the state variables    *)
(*                   its ret reads, the calls in its ret, and which        *)
(*                   candidate the ret is                                  *)
(*   updates         <<v, op>> -> statement;  handle_updates               *)
(*                   <<handle type, op>> -> statement.  A statement is     *)
(*                   the set of the calls <<query, actual arguments>> in   *)
(*                   it; SNoOp() is {}.                                    *)
(* The answers of the collaborators that are not part of impls.py are      *)
(* taken from the values themselves (valid, queries_equivalent,            *)
(* tease_apart) or are an argument drawn by the caller: `sub`, the         *)
(* sub-query sketch_update asks for for the first new state variable       *)
(* (NoSub: none).  A sub-query's own update code needs no sub-query.       *)
(***************************************************************************)
QueryImpl(reads, calls, cand) == [reads |-> reads, calls |-> calls, cand |-> cand]
Call(q, actuals) == <<q, actuals>>
Proj(type, meaning) == <<type, meaning>>

EmptyImpl ==
    [concrete_state |-> <<>>, query_specs |-> <<>>, query_impls |-> <<>>,
     updates |-> <<>>, handle_updates |-> <<>>]

\* common.find_one: the first element of s that satisfies the predicate
\* (given as the set ok of the values that satisfy it), or none
find_one(s, ok, none) ==
    LET hits == {i \in DOMAIN s : s[i] \in ok}
    IN  IF hits = {} THEN none ELSE s[CHOOSE i \in hits : \A j \in hits : i <= j]

\* _queries_used_by(stm): the queries a statement or an expression calls
_queries_used_by(stm) == {c[1] : c \in stm}

\* solver.valid(assumptions => e == ee): the two projections mean the same
valid(e, ee) == e[2] = ee[2]

\* misc.queries_equivalent: the same arguments in some order and rets that
\* compute the same
queries_equivalent(q1, q2) ==
    /\ q1[3] = q2[3]
    /\ Len(q1[4]) = Len(q2[4])
    /\ Names(q1[4]) = Names(q2[4])

\* tease_apart(wrap_naked_statevars(q.ret, ...)) for the ret of the query as
\* declared: one state variable for what the query computes, and a ret that
\* reads it
tease_apart(q) ==
    [rep |-> << <<Var(q, 0), Proj("T", <<"body", q[3], 0>>)>> >>,
     ret |-> QueryImpl({Var(q, 0)}, {}, 0)]

\* set_impl, line 184: the state variable found equal to e, or NoVar
aeq(I, e) ==
    find_one(I.concrete_state,
             {x \in Names(I.concrete_state) : e[1] = x[2][1] /\ valid(e, x[2])},
             <<NoVar, e>>)[1]

\* set_impl, lines 182-191: rep without the variables found equal to one of
\* concrete_state
NewMembers(I, rep) == SelectSeq(rep, LAMBDA x : aeq(I, x[2]) = NoVar)

\* a variant that leaves ret as it was given
set_impl_state_NoSubst(I, q, rep, ret) ==
    [I EXCEPT !.concrete_state = @ \o NewMembers(I, rep),
              !.query_impls    = (q :> ret) @@ @]

\* set_impl, lines 181-193: ret with each variable found equal replaced by
\* its equal; concrete_state extended; query_impls[q.name] set
set_impl_state(I, q, rep, ret) ==
    LET removed == {x \in Names(rep) : x \notin Names(NewMembers(I, rep))}
        subst_v(v) == IF \E x \in removed : x[1] = v
                      THEN aeq(I, (CHOOSE x \in removed : x[1] = v)[2]) ELSE v
    IN  [I EXCEPT !.concrete_state = @ \o NewMembers(I, rep),
                  !.query_impls    =
                      (q :> QueryImpl({subst_v(v) : v \in ret.reads}, ret.calls, ret.cand)) @@ @]

\* set_impl, lines 194-209, when sketch_update asks for no sub-query: a
\* no-op update for every new member and every op
set_impl_NoSketch(I, q, rep, ret) ==
    LET I1 == set_impl_state(I, q, rep, ret)
    IN  [I1 EXCEPT !.updates =
            [k \in {<<x[1], op>> : x \in Names(NewMembers(I, rep)), op \in OpNames} |-> {}] @@ @]

\* add_query, lines 87-97
add_query(I, q) ==
    set_impl_NoSketch([I EXCEPT !.query_specs = Append(@, q)], q,
                      tease_apart(q).rep, tease_apart(q).ret)

\* the position of the argument named a in args
ArgIndex(args, a) == CHOOSE i \in DOMAIN args : args[i] = a

\* a variant that renames the call and keeps the arguments as they are
Repl_KeepsArgs(stm, sub_q, qq) ==
    {IF c[1] = sub_q THEN Call(qq, c[2]) ELSE c : c \in stm}

\* _add_subquery, lines 125-134: every call of sub_q becomes a call of qq,
\* its i-th argument the one sub_q's call passed for qq's i-th parameter
Repl(stm, sub_q, qq) ==
    {IF c[1] = sub_q
     THEN Call(qq, [i \in DOMAIN qq[4] |-> c[2][ArgIndex(sub_q[4], qq[4][i])]])
     ELSE c : c \in stm}

\* a variant that adds every sub-query
_add_subquery_AlwaysAdds(I, sub_q, used_by) == <<add_query(I, sub_q), used_by>>

\* _add_subquery, lines 107-137: the pair <<Implementation, statement>>
_add_subquery(I, sub_q, used_by) ==
    LET qq == find_one(I.query_specs,
                       {x \in Names(I.query_specs) : dedup_queries /\ queries_equivalent(x, sub_q)},
                       NoSub)
    IN  IF qq # NoSub THEN <<I, Repl(used_by, sub_q, qq)>>
        ELSE <<add_query(I, sub_q), used_by>>

\* a variant that registers an update for the first new member only
set_impl_FirstMemberOnly(I, q, rep, ret, sub) ==
    LET new == NewMembers(I, rep)
        I1  == set_impl_state(I, q, rep, ret)
        r   == IF new = <<>> \/ sub = NoSub THEN <<I1, {}>>
               ELSE _add_subquery(I1, sub, {Call(sub, sub[4])})
    IN  [r[1] EXCEPT !.updates =
            [k \in {<<x[1], op>> : x \in {y \in Names(new) : y = new[1]}, op \in OpNames} |-> r[2]] @@ @]

\* a variant that registers the new updates in place of the old ones
set_impl_ResetsUpdates(I, q, rep, ret, sub) ==
    LET new == NewMembers(I, rep)
        I1  == set_impl_state(I, q, rep, ret)
        r   == IF new = <<>> \/ sub = NoSub THEN <<I1, {}>>
               ELSE _add_subquery(I1, sub, {Call(sub, sub[4])})
    IN  [r[1] EXCEPT !.updates =
            [k \in {<<x[1], op>> : x \in Names(new), op \in OpNames} |->
                IF k[1] = Head(new)[1] THEN r[2] ELSE {}]]

\* set_impl, lines 180-209
set_impl(I, q, rep, ret, sub) ==
    LET new == NewMembers(I, rep)
        I1  == set_impl_state(I, q, rep, ret)
        r   == IF new = <<>> \/ sub = NoSub THEN <<I1, {}>>
               ELSE _add_subquery(I1, sub, {Call(sub, sub[4])})
    IN  [r[1] EXCEPT !.updates =
            [k \in {<<x[1], op>> : x \in Names(new), op \in OpNames} |->
                IF k[1] = Head(new)[1] THEN r[2] ELSE {}] @@ @]

\* a variant that does not follow the calls of the updates
MarkPass_IgnoresUpdates(I, keep) ==
    LET impls == keep \cap DOMAIN I.query_impls
    IN  keep
        \cup UNION {_queries_used_by(I.query_impls[q].calls) : q \in impls}
        \cup UNION {_queries_used_by(I.handle_updates[k]) :
                       k \in {k \in DOMAIN I.handle_updates : k[2] \in OpNames}}

\* the mark phase of cleanup: one pass of the `while changed` loop
MarkPass(I, keep) ==
    LET impls == keep \cap DOMAIN I.query_impls
        svs   == UNION {I.query_impls[q].reads : q \in impls}
    IN  keep
        \cup UNION {_queries_used_by(I.query_impls[q].calls) : q \in impls}
        \cup UNION {_queries_used_by(I.handle_updates[k]) :
                       k \in {k \in DOMAIN I.handle_updates : k[2] \in OpNames}}
        \cup UNION {_queries_used_by(Get(I.updates, <<sv, op>>)) : sv \in svs, op \in OpNames}

RECURSIVE Mark(_, _)
Mark(I, keep) ==
    LET more == MarkPass(I, keep)
    IN  IF more = keep THEN keep ELSE Mark(I, more)

\* a variant that sweeps the state variables before the implementations
cleanup_SweepsStateFirst(I) ==
    LET queries_to_keep == Mark(I, {q \in Names(I.query_specs) : Visibility(q) = "Public"})
        cs == SelectSeq(I.concrete_state,
                        LAMBDA x : \E q \in DOMAIN I.query_impls : x[1] \in I.query_impls[q].reads)
    IN  [I EXCEPT !.query_specs    = SelectSeq(@, LAMBDA q : q \in queries_to_keep),
                  !.query_impls    = [q \in DOMAIN @ \cap queries_to_keep |-> @[q]],
                  !.concrete_state = cs,
                  !.updates        = [k \in {k \in DOMAIN @ : k[1] \in {x[1] : x \in Names(cs)}} |-> @[k]]]

\* cleanup, lines 300-353
cleanup(I) ==
    LET public == {q \in Names(I.query_specs) : Visibility(q) = "Public"}
        queries_to_keep == Mark(I, public)
        state_vars_to_keep ==
            UNION {I.query_impls[q].reads : q \in queries_to_keep \cap DOMAIN I.query_impls}
        \* self.updates[(sv, op.name)] on the defaultdict registers a no-op
        touched == {<<sv, op>> : sv \in state_vars_to_keep, op \in OpNames}
        upd1  == [k \in DOMAIN I.updates \cup touched |-> Get(I.updates, k)]
        specs == SelectSeq(I.query_specs, LAMBDA q : q \in queries_to_keep)
        impls == [q \in DOMAIN I.query_impls \cap queries_to_keep |-> I.query_impls[q]]
        cs    == SelectSeq(I.concrete_state,
                           LAMBDA x : \E q \in DOMAIN impls : x[1] \in impls[q].reads)
    IN  [I EXCEPT !.query_specs    = specs,
                  !.query_impls    = impls,
                  !.concrete_state = cs,
                  !.updates        =
                      [k \in {k \in DOMAIN upd1 : k[1] \in {x[1] : x \in Names(cs)}} |-> upd1[k]]]

(***************************************************************************)
(* improve_implementation: the pure parts of the loop body.                *)
(***************************************************************************)
\* a variant that keeps the first result seen for a name
OrderedDictPut_KeepFirst(d, r) ==
    IF \E i \in DOMAIN d : d[i].q = r.q THEN d ELSE Append(d, r)

\* improved_queries_by_name[q.name] = r on an OrderedDict: a known key keeps
\* its place and takes the new value, a new key goes to the end
OrderedDictPut(d, r) ==
    IF \E i \in DOMAIN d : d[i].q = r.q
    THEN [i \in DOMAIN d |-> IF d[i].q = r.q THEN r ELSE d[i]]
    ELSE Append(d, r)

RECURSIVE GroupFrom(_, _)
GroupFrom(d, rs) ==
    IF rs = <<>> THEN d ELSE GroupFrom(OrderedDictPut(d, Head(rs)), Tail(rs))

\* the values of improved_queries_by_name, in the dictionary's order
GroupByName(rs) == GroupFrom(<<>>, rs)

\* index_of(l, p): the first (0-based) index whose element satisfies p, or -1
index_of(l, q) ==
    IF \E i \in DOMAIN l : l[i] = q
    THEN (CHOOSE i \in DOMAIN l : l[i] = q /\ \A j \in 1..(i-1) : l[j] # q) - 1
    ELSE -1

\* list.sort(key): stable
RECURSIVE InsertByKey(_, _, _)
InsertByKey(sorted, r, specs) ==
    IF sorted = <<>> THEN <<r>>
    ELSE IF index_of(specs, Head(sorted).q) <= index_of(specs, r.q)
         THEN <<Head(sorted)>> \o InsertByKey(Tail(sorted), r, specs)
         ELSE <<r>> \o sorted

RECURSIVE SortFrom(_, _, _)
SortFrom(sorted, rs, specs) ==
    IF rs = <<>> THEN sorted
    ELSE SortFrom(InsertByKey(sorted, Head(rs), specs), Tail(rs), specs)

\* a variant that applies the results in the dictionary's order
SortImprovements_Unsorted(rs, specs) == rs

SortImprovements(rs, specs) == SortFrom(<<>>, rs, specs)

(***************************************************************************)
(* Jobs.  jobs.Job, jobs.stop_jobs and jobs.SafeQueue (cozy/jobs.py) are   *)
(* collaborators of the driver.                                            *)
(***************************************************************************)
\* j.done
JobDone(j) == job[j].pc = "done"

\* jobs.stop_jobs(js): asks every job to stop; the caller does not block on
\* a job that is still running
request_stop(jb, js) ==
    [j \in DOMAIN jb |-> IF j \in Names(js) THEN [jb[j] EXCEPT !.stop_requested = TRUE]
                         ELSE jb[j]]

RECURSIVE RemoveAll(_, _)
RemoveAll(ij, js) ==
    IF js = <<>> THEN ij ELSE RemoveAll(RemoveFirst(ij, Head(js)), Tail(js))

\* a variant that asks the jobs to stop and keeps them in improvement_jobs
stop_jobs_KeepsJobs(ij, jb, js) == <<ij, request_stop(jb, js)>>

\* stop_jobs(js) of improve_implementation: the pair <<improvement_jobs, job>>
stop_jobs(ij, jb, js) == <<RemoveAll(ij, js), request_stop(jb, js)>>

\* a variant that starts jobs for the Public queries only
NewJobs_PublicOnly(ij, specs) ==
    SelectSeq(specs, LAMBDA q : q \notin Names(ij) /\ Visibility(q) = "Public")

\* reconcile_jobs: the jobs to start
NewJobs(ij, specs) == SelectSeq(specs, LAMBDA q : q \notin Names(ij))

\* reconcile_jobs: the jobs to stop
OldJobs(ij, specs) == SelectSeq(ij, LAMBDA j : j \notin Names(specs))

\* j.start() for every new job
start_jobs(jb, new) ==
    [j \in DOMAIN jb |-> IF j \in Names(new)
                         THEN [pc |-> "first", stop_requested |-> FALSE, produced |-> 0,
                               observed |-> FALSE]
                         ELSE jb[j]]

reconcile_jobs(ij, jb, specs) ==
    LET new     == NewJobs(ij, specs)
        old     == OldJobs(ij, specs)
        stopped == stop_jobs(ij, jb, old)
    IN  <<stopped[1] \o new, start_jobs(stopped[2], new)>>

(***************************************************************************)
(* The initial state: improve_implementation has made its defensive copy   *)
(* of the Implementation construct_initial_implementation built for a      *)
(* specification with one Public query and no handles.                     *)
(***************************************************************************)
InitialImpl == cleanup(add_query(EmptyImpl, CHOOSE q \in PublicQueries : TRUE))

\* ImproveQueryJob.run, line 109: tease_apart(expr) for the candidate cand of
\* the job of q: one state variable, whose projection is e, and a ret that
\* reads it
CandidateRep(q, cand, e) == << <<Var(q, cand), e>> >>
CandidateRet(q, cand)    == QueryImpl({Var(q, cand)}, {}, cand)
\* a projection unlike the projection of any other state variable
NewProj(q, cand)         == Proj("T", <<q[1], q[2], cand>>)

DriverInit ==
    /\ impl = InitialImpl
    /\ dedup_queries = TRUE
    /\ improvement_jobs = <<>>
    /\ job = [q \in AllQueries |-> [pc |-> "none", stop_requested |-> FALSE, produced |-> 0,
                                    observed |-> FALSE]]
    /\ solutions_q = <<>>
    /\ yielded = 0
    /\ pc = "start"
    /\ done = FALSE
    /\ timedOut = FALSE
    /\ improvements = <<>>
    /\ next_sub = 1
    /\ results = <<>>
    /\ applied = <<>>
    /\ specs_at_sort = <<>>
    /\ last_completed = impl

(***************************************************************************)
(* The main thread.                                                        *)
(***************************************************************************)
\* line 179: reconcile_jobs()
MainStart ==
    /\ UNCHANGED <<dedup_queries, code, fresh, api, pure>>
    /\ pc = "start"
    /\ LET r == reconcile_jobs(improvement_jobs, job, impl.query_specs)
       IN  improvement_jobs' = r[1] /\ job' = r[2]
    /\ pc' = "loop"
    /\ UNCHANGED <<impl, solutions_q, yielded, done, improvements, next_sub, timedOut, histVars>>

\* line 184: while not done and not timeout.is_timed_out()
MainLoopTest ==
    /\ UNCHANGED <<dedup_queries, code, fresh, api, pure>>
    /\ pc = "loop"
    /\ pc' = IF ~done /\ ~timedOut THEN "poll" ELSE "stop"
    /\ UNCHANGED <<impl, jobVars, done, improvements, next_sub, timedOut, histVars>>

\* lines 185-193: join the finished jobs; done = all(j.done ...).  The field
\* `observed` of a job records that this loop has found it done.
MainPoll ==
    /\ UNCHANGED <<dedup_queries, code, fresh, api, pure>>
    /\ pc = "poll"
    /\ done' = \A j \in Names(improvement_jobs) : JobDone(j)
    /\ job' = [j \in DOMAIN job |->
                  IF j \in Names(improvement_jobs) /\ JobDone(j)
                  THEN [job[j] EXCEPT !.observed = TRUE] ELSE job[j]]
    /\ pc' = "drain"
    /\ UNCHANGED <<impl, improvement_jobs, solutions_q, yielded, improvements, next_sub,
                   timedOut, histVars>>

\* a variant whose drain takes one result from the channel and leaves the rest
MainDrain_OneResult ==
    /\ UNCHANGED <<dedup_queries, code, fresh, api, pure>>
    /\ pc = "drain"
    /\ IF solutions_q = <<>>
       THEN /\ pc' = "loop"
            /\ UNCHANGED <<solutions_q, improvements, results, applied, specs_at_sort>>
       ELSE /\ solutions_q' = Tail(solutions_q)
            /\ results' = <<Head(solutions_q)>>
            /\ improvements' = SortImprovements(GroupByName(<<Head(solutions_q)>>),
                                                impl.query_specs)
            /\ applied' = <<>>
            /\ specs_at_sort' = impl.query_specs
            /\ pc' = "apply"
    /\ UNCHANGED <<impl, improvement_jobs, job, yielded, done, next_sub, timedOut, last_completed>>

\* lines 195-221: drain the channel, group by name, sort by position
MainDrain ==
    /\ UNCHANGED <<dedup_queries, code, fresh, api, pure>>
    /\ pc = "drain"
    /\ IF solutions_q = <<>>
       THEN /\ pc' = "loop"
            /\ UNCHANGED <<solutions_q, improvements, results, applied, specs_at_sort>>
       ELSE /\ solutions_q' = <<>>
            /\ results' = solutions_q
            /\ improvements' = SortImprovements(GroupByName(solutions_q), impl.query_specs)
            /\ applied' = <<>>
            /\ specs_at_sort' = impl.query_specs
            /\ pc' = "apply"
    /\ UNCHANGED <<impl, improvement_jobs, job, yielded, done, next_sub, timedOut, last_completed>>

\* a variant that looks at the timeout between set_impl and cleanup
AfterSetImpl_TimeoutCheck == IF timedOut THEN "stop" ELSE "cleanup"

\* lines 241-244: what follows set_impl
AfterSetImpl == "cleanup"

\* lines 228-241: the next improvement; the guard of line 233; set_impl
MainApply ==
    /\ UNCHANGED <<dedup_queries, code, fresh, api, pure>>
    /\ pc = "apply"
    /\ IF improvements = <<>>
       THEN /\ pc' = "loop"
            /\ results' = <<>>
            /\ applied' = <<>>
            /\ specs_at_sort' = <<>>
            /\ UNCHANGED <<impl, improvements, next_sub>>
       ELSE LET r == Head(improvements)
            IN  /\ improvements' = Tail(improvements)
                /\ UNCHANGED <<results, specs_at_sort>>
                /\ IF r.q \in Names(impl.query_specs)
                   THEN /\ \E e \in {NewProj(r.q, r.cand)} \cup {x[2] : x \in Names(impl.concrete_state)} :
                           \E sub \in {NoSub}
                                      \cup {<<"sub", next_sub, q[3], <<>>>> : q \in Names(impl.query_specs)}
                                      \cup {SubQuery(next_sub) : x \in {y \in {1} : next_sub <= MaxSubqueries}} :
                              /\ impl' = set_impl(impl, r.q, CandidateRep(r.q, r.cand, e),
                                                  CandidateRet(r.q, r.cand), sub)
                              /\ next_sub' = IF SubQuery(next_sub) \in Names(impl'.query_specs)
                                             THEN next_sub + 1 ELSE next_sub
                        /\ applied' = Append(applied, r)
                        /\ pc' = AfterSetImpl
                   ELSE /\ pc' = "apply"
                        /\ UNCHANGED <<impl, next_sub, applied>>
    /\ UNCHANGED <<jobVars, done, timedOut, last_completed>>

\* line 244: impl.cleanup()
MainCleanup ==
    /\ UNCHANGED <<dedup_queries, code, fresh, api, pure>>
    /\ pc = "cleanup"
    /\ impl' = cleanup(impl)
    /\ last_completed' = impl'
    /\ pc' = "reconcile"
    /\ UNCHANGED <<jobVars, done, improvements, next_sub, timedOut, results, applied, specs_at_sort>>

\* line 247: reconcile_jobs()
MainReconcile ==
    /\ UNCHANGED <<dedup_queries, code, fresh, api, pure>>
    /\ pc = "reconcile"
    /\ LET r == reconcile_jobs(improvement_jobs, job, impl.query_specs)
       IN  improvement_jobs' = r[1] /\ job' = r[2]
    /\ pc' = "apply"
    /\ UNCHANGED <<impl, solutions_q, yielded, done, improvements, next_sub, timedOut, histVars>>

\* lines 250-252: stop_jobs(list(improvement_jobs)); return impl
MainStop ==
    /\ UNCHANGED <<dedup_queries, code, fresh, api, pure>>
    /\ pc = "stop"
    /\ LET r == stop_jobs(improvement_jobs, job, improvement_jobs)
       IN  improvement_jobs' = r[1] /\ job' = r[2]
    /\ pc' = "returned"
    /\ UNCHANGED <<impl, solutions_q, yielded, done, improvements, next_sub, timedOut, histVars>>

\* the wall clock passes the timeout
Timeout ==
    /\ UNCHANGED <<dedup_queries, code, fresh, api, pure>>
    /\ ~timedOut
    /\ pc # "returned"
    /\ timedOut' = TRUE
    /\ UNCHANGED <<impl, jobVars, mainVars, histVars>>

(***************************************************************************)
(* ImproveQueryJob.run.                                                    *)
(***************************************************************************)
\* a variant in which the job applies its result itself
k_AppliesResult(q, cand) ==
    /\ solutions_q' = Append(solutions_q, [q |-> q, cand |-> cand])
    /\ impl' = set_impl(impl, q, CandidateRep(q, cand, NewProj(q, cand)),
                        CandidateRet(q, cand), NoSub)

\* line 165: the callback k given to the job
k(q, cand) ==
    /\ solutions_q' = Append(solutions_q, [q |-> q, cand |-> cand])
    /\ UNCHANGED impl

\* lines 97, 109-110: the first expression of the chain is the query's own
\* body, handed to k before the enumerator is asked anything
JobFirst(j) ==
    /\ UNCHANGED <<dedup_queries, code, fresh, api, pure>>
    /\ job[j].pc = "first"
    /\ k(j, 1)
    /\ job' = [job EXCEPT ![j].pc = "improve", ![j].produced = 1]
    /\ UNCHANGED <<improvement_jobs, yielded, mainVars, timedOut, histVars>>

\* lines 97-110: core.improve polls stop_callback and yields a better
\* expression, which tease_apart splits and k takes
JobYield(j) ==
    /\ UNCHANGED <<dedup_queries, code, fresh, api, pure>>
    /\ job[j].pc = "improve"
    /\ ~job[j].stop_requested
    /\ yielded < MaxCandidates
    /\ yielded' = yielded + 1
    /\ k(j, job[j].produced + 1)
    /\ job' = [job EXCEPT ![j].produced = @ + 1]
    /\ UNCHANGED <<improvement_jobs, mainVars, timedOut, histVars>>

\* lines 112-114: core.improve polls stop_callback, finds stop_requested
\* set and raises StopException; run returns
JobStopped(j) ==
    /\ UNCHANGED <<dedup_queries, code, fresh, api, pure>>
    /\ job[j].pc = "improve"
    /\ job[j].stop_requested
    /\ job' = [job EXCEPT ![j].pc = "done", ![j].produced = 0]
    /\ UNCHANGED <<impl, improvement_jobs, solutions_q, yielded, mainVars, timedOut, histVars>>

\* line 111: the enumerator ends (optimality proved), or run fails: either
\* way run is over and j.done holds
JobFinish(j) ==
    /\ UNCHANGED <<dedup_queries, code, fresh, api, pure>>
    /\ job[j].pc = "improve"
    /\ ~job[j].stop_requested
    /\ job' = [job EXCEPT ![j].pc = "done", ![j].produced = 0]
    /\ UNCHANGED <<impl, improvement_jobs, solutions_q, yielded, mainVars, timedOut, histVars>>

JobStep(j) == JobFirst(j) \/ JobYield(j) \/ JobStopped(j) \/ JobFinish(j)

MainStep ==
    \/ MainStart
    \/ MainLoopTest
    \/ MainPoll
    \/ MainDrain
    \/ MainApply
    \/ MainCleanup
    \/ MainReconcile
    \/ MainStop

Next ==
    \/ MainStep
    \/ Timeout
    \/ \E j \in AllQueries : JobStep(j)

Init ==
    /\ DriverInit
    /\ code = CodeIdle
    /\ fresh = FreshIdle
    /\ api = ApiIdle
    /\ pure = PureIdle

Spec == Init /\ [][Next]_vars

\* The main thread keeps running; a started job reaches its enumerator, and
\* an enumerator that is asked to stop does stop.  Nothing makes an
\* enumerator yield or finish.
FairSpec ==
    /\ Spec
    /\ WF_vars(MainStep)
    /\ \A j \in AllQueries : WF_vars(JobFirst(j) \/ JobStopped(j))

(***************************************************************************)
(* Claims about improve_implementation.                                    *)
(***************************************************************************)
\* the last result of the batch `rs` for the query named q
LastFor(rs, q) ==
    rs[CHOOSE n \in DOMAIN rs : rs[n].q = q /\ \A m \in DOMAIN rs : m > n => rs[m].q # q]

\* C3: within one drained batch, at most one result per query name is
\* handed to set_impl, and it is the one enqueued last for that name; the
\* earlier ones are never applied.
C3_LatestResultPerName ==
    /\ \A i, j \in DOMAIN applied : applied[i].q = applied[j].q => i = j
    /\ \A i \in DOMAIN applied :
          /\ \E n \in DOMAIN results : results[n] = applied[i]
          /\ applied[i] = LastFor(results, applied[i].q)

\* a result was applied although the batch held an earlier result for its query
C3_Witness ==
    \E i \in DOMAIN applied : \E n, m \in DOMAIN results :
        n < m /\ results[n].q = applied[i].q /\ results[m] = applied[i]

\* the batch's last result per query, in the order of `specs`
Canonical(rs, specs) ==
    LET hit == SelectSeq(specs, LAMBDA q : \E n \in DOMAIN rs : rs[n].q = q)
    IN  [i \in DOMAIN hit |-> LastFor(rs, hit[i])]

IsSuffix(a, b) ==
    /\ Len(a) <= Len(b)
    /\ \A i \in DOMAIN a : a[i] = b[Len(b) - Len(a) + i]

\* C4: the results kept from a batch are applied in increasing position of
\* their query in query_specs, and what is still to be applied is decided
\* by the last result per query and query_specs alone, not by the order in
\* which the jobs enqueued the results.
C4_AppliedInQuerySpecsOrder ==
    /\ \A i, j \in DOMAIN applied :
          i < j => index_of(specs_at_sort, applied[i].q) < index_of(specs_at_sort, applied[j].q)
    /\ pc \in {"apply", "cleanup", "reconcile"} =>
          IsSuffix(SelectSeq(improvements, LAMBDA r : r.q \in Names(specs_at_sort)),
                   Canonical(results, specs_at_sort))

\* two results were applied in the order opposite to their arrival
C4_Witness ==
    /\ Len(applied) = 2
    /\ \E n, m \in DOMAIN results :
          n < m /\ results[n] = applied[2] /\ results[m] = applied[1]

\* C5: improve_implementation leaves its loop only when every job it has
\* started and not stopped is done, or when the timeout has elapsed.
C5_ReturnsWhenJobsDoneOrTimeout ==
    pc = "stop" => (timedOut \/ \A j \in Names(improvement_jobs) : JobDone(j))

C7_OneJobPerPublicQueryOnly ==
    pc \in {"loop", "poll", "drain", "apply", "stop"} =>
        /\ NoDuplicates(improvement_jobs)
        /\ Names(improvement_jobs)
             = {q \in Names(impl.query_specs) : Visibility(q) = "Public"}

\* C7 amended: whenever reconcile_jobs has run after the last set_impl,
\* there is exactly one job per query of query_specs, whatever its
\* visibility.
C7_OneJobPerQuery ==
    pc \in {"loop", "poll", "drain", "apply", "stop"} =>
        /\ NoDuplicates(improvement_jobs)
        /\ Names(improvement_jobs) = Names(impl.query_specs)

\* a job runs for an Internal sub-query
C7_Witness ==
    /\ pc = "loop"
    /\ \E q \in Names(improvement_jobs) : Visibility(q) = "Internal" /\ job[q].pc = "improve"

\* a step of a job: the main thread's locals and the clock stand still
JobStepTaken ==
    /\ pc' = pc
    /\ improvements' = improvements
    /\ timedOut' = timedOut

\* C8: a step of a job leaves the Implementation and the set of jobs as
\* they are; all it does that the main thread can see is to append one
\* (query, rep, ret) result to the channel or to finish.
C8_OnlyMainThreadMutatesImpl ==
    [][JobStepTaken =>
          /\ impl' = impl
          /\ improvement_jobs' = improvement_jobs
          /\ \/ solutions_q' = solutions_q
             \/ \E q \in AllQueries, c \in 1..(MaxCandidates + 1) :
                   solutions_q' = Append(solutions_q, [q |-> q, cand |-> c])]_vars

\* a job has enqueued a result while the main thread is between set_impl
\* and cleanup
C8_Witness ==
    /\ pc = "cleanup"
    /\ solutions_q # <<>>

MaxVars    == 2
MaxOps     == 2
MaxQueries == 2

StateVars == 1..MaxVars      \* concrete_state[i] is the variable i
OpSpecs   == 1..MaxOps       \* op_specs, in order
Queries   == 1..MaxQueries   \* the names of query_specs / query_impls
HandleTypes == {"H"}

RECURSIVE SortedSeq(_)
\* the elements of a set of integers, ascending
SortedSeq(S) ==
    IF S = {} THEN <<>>
    ELSE LET m == CHOOSE x \in S : \A y \in S : x <= y
         IN  <<m>> \o SortedSeq(S \ {m})

\* lines 234-243: v1 -> v2 when the update code of v1 calls a query that reads v2
Edges(reads, calls, op) ==
    {e \in StateVars \X StateVars : \E q \in calls[<<e[1], op>>] : e[2] \in reads[q]}

Acyclic(E) ==
    \E ord \in Permutations(StateVars) : \A e \in E : ord[e[1]] < ord[e[2]]

\* line 247: g.feedback_arc_set(method="ip"), an exact minimum feedback arc
\* set; which one of several minimum sets is found is the library's choice,
\* so this is the set of the possible results
safe_feedback_arc_set(E) ==
    {F \in SUBSET E :
        /\ Acyclic(E \ F)
        /\ \A G \in SUBSET E : Acyclic(E \ G) => Cardinality(F) <= Cardinality(G)}

RECURSIVE Kahn(_, _, _, _)
Kahn(queue, res, deg, E) ==
    IF queue = <<>> THEN res
    ELSE LET node == Head(queue)
             deg2 == [v \in StateVars |-> IF <<node, v>> \in E THEN deg[v] - 1 ELSE deg[v]]
             neis == SortedSeq({v \in StateVars : <<node, v>> \in E})
         IN  Kahn(Tail(queue) \o SelectSeq(neis, LAMBDA v : deg2[v] = 0),
                  Append(res, node), deg2, E)

\* line 249: g.topological_sorting(mode="OUT"): the sources first, queue
\* order, ties by vertex index
topological_sorting(E) ==
    LET deg == [v \in StateVars |-> Cardinality({e \in E : e[2] = v})]
    IN  Kahn(SortedSeq({v \in StateVars : deg[v] = 0}), <<>>, deg, E)

RECURSIVE LiftFrom(_, _, _, _, _)
\* lines 252-265: walk the ordered variables; a call to a query that reads a
\* variable already updated (the variable itself included) is declared as a
\* local at the top of the op and replaced in the statement
LiftFrom(rest, things_updated, acc, reads, op) ==
    IF rest = <<>> THEN acc
    ELSE LET v        == Head(rest)
             tu       == things_updated \cup {v}
             problems == {q \in acc.updates[<<v, op>>] : tu \cap reads[q] # {}}
             decls    == [i \in DOMAIN SortedSeq(problems) |->
                             [v |-> v, call |-> SortedSeq(problems)[i]]]
         IN  LiftFrom(Tail(rest), tu,
                      [temps   |-> acc.temps \o decls,
                       updates |-> [acc.updates EXCEPT ![<<v, op>>] = @ \ problems]],
                      reads, op)

\* line 271: the order the statements of `op` are emitted in: the variable
\* ordered_concrete_state as the first loop left it
EmitOrder(c, op) == c.ordered_concrete_state

\* lines 271-279: the body of the new Op
OpBody(c, op) ==
    LET ord == EmitOrder(c, op)
    IN  [decls |-> c.temps[op],
         stms  |-> [i \in DOMAIN ord |-> [v |-> ord[i], calls |-> c.updates[<<ord[i], op>>]]],
         hups  |-> {h \in c.handles : h[2] = op}]

CodeInit ==
    /\ DriverInit
    /\ fresh = FreshIdle
    /\ api = ApiIdle
    /\ pure = PureIdle
    /\ \E reads \in [Queries -> SUBSET StateVars],
          calls \in [StateVars \X OpSpecs -> SUBSET Queries],
          handles \in SUBSET (HandleTypes \X OpSpecs) :
          code = [pc      |-> "order",
                  i       |-> 1,
                  reads   |-> reads,
                  calls   |-> calls,
                  handles |-> handles,
                  updates |-> calls,
                  temps   |-> [o \in OpSpecs |-> <<>>],
                  ordered_concrete_state |-> <<>>,
                  broken  |-> [o \in OpSpecs |-> {}],
                  new_ops |-> <<>>]

\* lines 229-265: one iteration of `for operator in self.op_specs`
CodeOrderAndLift ==
    /\ code.pc = "order"
    /\ LET op == code.i
           E  == Edges(code.reads, code.calls, op)
       IN  \E edges_to_break \in safe_feedback_arc_set(E) :
             LET ord    == topological_sorting(E \ edges_to_break)
                 lifted == LiftFrom(ord, {}, [temps |-> <<>>, updates |-> code.updates],
                                    code.reads, op)
             IN  code' = [code EXCEPT
                            !.ordered_concrete_state = ord,
                            !.broken[op]   = edges_to_break,
                            !.temps[op]    = lifted.temps,
                            !.updates      = lifted.updates,
                            !.i  = IF op = MaxOps THEN 1 ELSE op + 1,
                            !.pc = IF op = MaxOps THEN "emit" ELSE "order"]
    /\ UNCHANGED <<driverVars, fresh, api, pure>>

\* lines 269-279: one iteration of `for op in self.op_specs`
CodeEmit ==
    /\ code.pc = "emit"
    /\ code' = [code EXCEPT
                  !.new_ops = Append(@, OpBody(code, code.i)),
                  !.i  = IF code.i = MaxOps THEN 1 ELSE code.i + 1,
                  !.pc = IF code.i = MaxOps THEN "done" ELSE "emit"]
    /\ UNCHANGED <<driverVars, fresh, api, pure>>

CodeNext ==
    \/ CodeOrderAndLift
    \/ CodeEmit

SpecCode == CodeInit /\ [][CodeNext]_vars

(***************************************************************************)
(* Claims about Implementation.code.                                       *)
(***************************************************************************)
Pos(stms, v) == CHOOSE i \in DOMAIN stms : stms[i].v = v

\* C1: every emitted op body is the declarations hoisted for that op, then
\* exactly one update statement per concrete state variable in a
\* topological order of that op's own dependency graph (without the
\* feedback arc set), then the handle updates registered for that op.
C1_EveryOpInItsOwnTopologicalOrder ==
    code.pc = "done" =>
      \A op \in OpSpecs :
        LET b == code.new_ops[op]
            E == Edges(code.reads, code.calls, op) \ code.broken[op]
        IN  /\ b.decls = code.temps[op]
            /\ Len(b.stms) = MaxVars
            /\ \A v \in StateVars : \E i \in DOMAIN b.stms : b.stms[i].v = v
            /\ \A e \in E : Pos(b.stms, e[1]) < Pos(b.stms, e[2])
            /\ b.hups = {h \in code.handles : h[2] = op}

\* no query is called by two update statements, the first op's update of
\* variable 1 reads variable 2 and nothing else is read by an update of
\* the first op, the last op's update of variable 2 reads variable 1: no
\* cycle, one topological order per op, and the first op is emitted with
\* the last op's order
C1_ForcedOrdersDiffer ==
    /\ code.pc = "done"
    /\ Edges(code.reads, code.calls, 1) = {<<1, 2>>}
    /\ Edges(code.reads, code.calls, MaxOps) = {<<2, 1>>}
    /\ code.new_ops[1].stms[1].v = 2

\* C2: in every emitted op body no update statement still calls a query
\* that reads a state variable updated at or before it, and an op whose
\* updates read each other in a cycle declares at least one local.
C2_NoReadAfterWrite ==
    code.pc = "done" =>
      \A op \in OpSpecs :
        LET b == code.new_ops[op]
        IN  /\ \A i \in DOMAIN b.stms : \A q \in b.stms[i].calls :
                  code.reads[q] \cap {b.stms[j].v : j \in 1..i} = {}
            /\ (\E v1, v2 \in StateVars :
                   /\ v1 # v2
                   /\ <<v1, v2>> \in Edges(code.reads, code.calls, op)
                   /\ <<v2, v1>> \in Edges(code.reads, code.calls, op))
               => b.decls # <<>>

\* the first op's update of variable 1 still calls a query that reads
\* variable 2 and is emitted after the update of variable 2, in an input
\* without cycles
C2_ReadAfterWriteEmitted ==
    /\ C1_ForcedOrdersDiffer
    /\ code.new_ops[1].stms[2].v = 1
    /\ \E q \in code.new_ops[1].stms[2].calls : 2 \in code.reads[q]

(***************************************************************************)
(* fresh_name (common.py:272-283).                                         *)
(*                                                                         *)
(*   SpecFresh  concurrent callers of fresh_name, each call with a hint    *)
(*              of Hints and either no omit argument or one of Omits.      *)
(*              Strings are sequences of characters and a name is built    *)
(*              as "_{}{}".format(hint, i) builds it.  Two of the calls    *)
(*              of a run, any two, are observed: fresh.observed holds      *)
(*              what they returned.                                        *)
(***************************************************************************)
NumCallers == 2
MaxCalls   == 11    \* calls that take the counter branch in one run

Callers == 1..NumCallers
DigitChar == <<"0", "1", "2", "3", "4", "5", "6", "7", "8", "9">>

RECURSIVE Decimal(_)
\* "{}".format(n) of a natural number
Decimal(n) ==
    IF n < 10 THEN <<DigitChar[n + 1]>>
    ELSE Decimal(n \div 10) \o <<DigitChar[(n % 10) + 1]>>

\* "_{}{}".format(hint, n)
Format(hint, n) == <<"_">> \o hint \o Decimal(n)

Hints  == {<<"a">>, <<"a", "1">>}
Omits  == {{}, {Format(<<"a">>, 0)}}

RECURSIVE FirstNotIn(_, _, _)
\* lines 276-279: the first "_<hint><i>", i = 0, 1, ..., that is not in omit
FirstNotIn(hint, n, omit) ==
    IF Format(hint, n) \in omit THEN FirstNotIn(hint, n + 1, omit)
    ELSE Format(hint, n)

IdleCaller == [pc |-> "idle", hint |-> <<>>, tmp |-> 0]

\* a variant of the lock that never makes a caller wait
get_lock_NoExclusion(holders) == TRUE

\* line 281: `with _i.get_lock()` is entered when no caller holds the lock
get_lock(holders) == holders = {}

FreshInit ==
    /\ DriverInit
    /\ code = CodeIdle
    /\ api = ApiIdle
    /\ pure = PureIdle
    /\ fresh = [pc       |-> "run",
                _i       |-> 0,
                lock     |-> {},
                caller   |-> [c \in Callers |-> IdleCaller],
                ncalls   |-> 0,
                observed |-> <<>>]

\* lines 274-279: a call with omit; no shared state is read or written
FreshNameOmit(c) ==
    /\ fresh.pc = "run"
    /\ fresh.caller[c].pc = "idle"
    /\ \E hint \in Hints, omit \in Omits :
         LET name == FirstNotIn(hint, 0, omit)
         IN  \/ fresh' = fresh
             \/ /\ Len(fresh.observed) < 2
                /\ fresh' = [fresh EXCEPT !.observed =
                                Append(@, [name |-> name, hint |-> hint, omit |-> TRUE])]
    /\ UNCHANGED <<driverVars, code, api, pure>>

\* lines 273-274, 280: a call without omit reaches the `with`
FreshNameCall(c) ==
    /\ fresh.pc = "run"
    /\ fresh.caller[c].pc = "idle"
    /\ fresh.ncalls < MaxCalls
    /\ \E hint \in Hints :
         fresh' = [fresh EXCEPT !.caller[c] = [pc |-> "lock", hint |-> hint, tmp |-> 0],
                                !.ncalls = @ + 1]
    /\ UNCHANGED <<driverVars, code, api, pure>>

\* line 281: the lock is taken
FreshNameAcquire(c) ==
    /\ fresh.pc = "run"
    /\ fresh.caller[c].pc = "lock"
    /\ get_lock(fresh.lock)
    /\ fresh' = [fresh EXCEPT !.lock = @ \cup {c}, !.caller[c].pc = "load"]
    /\ UNCHANGED <<driverVars, code, api, pure>>

\* line 282: `_i.value += 1` reads the value ...
FreshNameLoad(c) ==
    /\ fresh.pc = "run"
    /\ fresh.caller[c].pc = "load"
    /\ fresh' = [fresh EXCEPT !.caller[c].tmp = fresh._i, !.caller[c].pc = "store"]
    /\ UNCHANGED <<driverVars, code, api, pure>>

\* ... and writes the value plus one
FreshNameStore(c) ==
    /\ fresh.pc = "run"
    /\ fresh.caller[c].pc = "store"
    /\ fresh' = [fresh EXCEPT !._i = fresh.caller[c].tmp + 1, !.caller[c].pc = "format"]
    /\ UNCHANGED <<driverVars, code, api, pure>>

\* line 283: the name is formatted from the counter's value, the `with`
\* block is left and the lock released
FreshNameReturn(c) ==
    /\ fresh.pc = "run"
    /\ fresh.caller[c].pc = "format"
    /\ LET name == Format(fresh.caller[c].hint, fresh._i)
           f    == [fresh EXCEPT !.lock = @ \ {c}, !.caller[c] = IdleCaller]
       IN  \/ fresh' = f
           \/ /\ Len(fresh.observed) < 2
              /\ fresh' = [f EXCEPT !.observed =
                              Append(@, [name |-> name, hint |-> fresh.caller[c].hint,
                                         omit |-> FALSE])]
    /\ UNCHANGED <<driverVars, code, api, pure>>

FreshNext ==
    \E c \in Callers :
        \/ FreshNameOmit(c)
        \/ FreshNameCall(c)
        \/ FreshNameAcquire(c)
        \/ FreshNameLoad(c)
        \/ FreshNameStore(c)
        \/ FreshNameReturn(c)

SpecFresh == FreshInit /\ [][FreshNext]_vars

(***************************************************************************)
(* Claims about fresh_name.                                                *)
(***************************************************************************)
TwoObserved == fresh.pc = "run" /\ Len(fresh.observed) = 2

\* hint h is hint g followed by one or more decimal digits
DigitExtension(g, h) ==
    /\ Len(h) > Len(g)
    /\ SubSeq(h, 1, Len(g)) = g
    /\ \A i \in (Len(g) + 1)..Len(h) : \E d \in DOMAIN DigitChar : h[i] = DigitChar[d]

\* the shared counter changes only by one, upwards, in a step of a caller
\* that holds its lock
CounterStep ==
    (fresh.pc = "run" /\ fresh'.pc = "run" /\ fresh'._i # fresh._i) =>
        /\ fresh'._i = fresh._i + 1
        /\ \E c \in fresh.lock : fresh.caller[c].pc = "store" /\ fresh'.caller[c].pc = "format"

\* C10: any two calls to fresh_name return different names, in every
\* interleaving and for every combination of arguments (any hint, with or
\* without omit), and the shared counter is only ever incremented, under
\* its lock.
C10_AnyTwoCallsDiffer ==
    /\ [](TwoObserved => fresh.observed[1].name # fresh.observed[2].name)
    /\ [][CounterStep]_vars

\* C10 as the code has it: two calls without omit return different names
\* in every interleaving unless one hint is the other followed by decimal
\* digits, and the shared counter is only ever incremented by one, by the
\* caller holding its lock.
C10_CounterCallsDiffer ==
    /\ [](TwoObserved =>
            LET r1 == fresh.observed[1]
                r2 == fresh.observed[2]
            IN  (/\ ~r1.omit
                 /\ ~r2.omit
                 /\ ~DigitExtension(r1.hint, r2.hint)
                 /\ ~DigitExtension(r2.hint, r1.hint))
                => r1.name # r2.name)
    /\ [][CounterStep]_vars

\* both callers were inside fresh_name(hint "a") at once, both calls are
\* the observed ones and the second took the counter value after the first
C10_Witness ==
    /\ TwoObserved
    /\ ~fresh.observed[1].omit
    /\ ~fresh.observed[2].omit
    /\ fresh.observed[1].hint = <<"a">>
    /\ fresh.observed[2].hint = <<"a">>
    /\ fresh.observed[1].name = Format(<<"a">>, 1)
    /\ fresh.observed[2].name = Format(<<"a">>, 2)
    /\ \E c \in Callers : fresh.caller[c].pc = "lock"

(***************************************************************************)
(* The Implementation's methods (impls.py).                                *)
(*                                                                         *)
(*   SpecImpl  construct_initial_implementation for a specification with   *)
(*             the Query methods api.methods, with or without a handle     *)
(*             type, and then up to MaxApiCalls calls of set_impl,         *)
(*             _add_subquery and cleanup, with either value of the         *)
(*             option deduplicate-subqueries.  api.last is the last call   *)
(*             and what it returned, api.log the calls of                  *)
(*             construct_initial_implementation, api.n the number of       *)
(*             fresh names handed out.                                     *)
(***************************************************************************)
MaxApiCalls == 2

\* the methods of the specification: two Public queries that are the same
\* up to the order of their arguments, a Private one, and the operation
UserQuery(i) ==
    CASE i = 1 -> <<"pub", 1, 1, <<"x", "y">>>>
      [] i = 2 -> <<"pub", 2, 1, <<"y", "x">>>>
      [] OTHER -> <<"priv", 3, 2, <<>>>>
OpMethod == <<"op", 0, 0, <<>>>>
MethodLists ==
    {<<OpMethod, UserQuery(1)>>, <<UserQuery(1), OpMethod, UserQuery(2)>>,
     <<UserQuery(1), UserQuery(3), OpMethod>>, <<UserQuery(3), OpMethod, UserQuery(1)>>}

\* a variant that adds the Public queries only
QueryMethods_PublicOnly(ms) == SelectSeq(ms, LAMBDA m : m[1] = "pub")

\* lines 363-364: the methods that are queries, in the order of spec.methods
QueryMethods(ms) == SelectSeq(ms, LAMBDA m : m # OpMethod)

\* what sketch_update may ask for: a sub-query named by the next fresh name
SubShapes(n) ==
    {<<"sub", n, 1, <<"y", "x">>>>, <<"sub", n, 3, <<"x", "y">>>>, <<"sub", n, 3, <<"y", "x">>>>}

Body(b) == <<"body", b, 0>>

\* the candidates set_impl is called with for the query q when n fresh
\* names have been handed out: rep, ret and sketch_update's sub-query
Candidates(I, q, n) ==
    LET v1 == Var(q, n + 1)
        v2 == Var(q, n + 2)
        s  == n + 3
        last == I.query_specs[Len(I.query_specs)]
    IN  {[rep |-> << <<v1, Proj("T", Body(3))>> >>,
          ret |-> QueryImpl({v1}, {}, n + 1), sub |-> NoSub],
         [rep |-> << <<v1, Proj("T", Body(3))>>, <<v2, Proj("T", Body(3))>> >>,
          ret |-> QueryImpl({v1, v2}, {}, n + 1), sub |-> <<"sub", s, 3, <<"x", "y">>>>],
         [rep |-> << <<v1, Proj("T", Body(1))>>, <<v2, Proj("T", Body(4))>> >>,
          ret |-> QueryImpl({v1, v2}, {}, n + 1), sub |-> <<"sub", s, 3, <<"y", "x">>>>],
         [rep |-> << <<v1, Proj("U", Body(3))>> >>,
          ret |-> QueryImpl({v1}, {Call(last, last[4])}, n + 1), sub |-> NoSub],
         [rep |-> << <<v1, Proj("T", Body(1))>> >>,
          ret |-> QueryImpl({v1}, {}, n + 1), sub |-> <<"sub", s, 1, <<"y", "x">>>>]}

\* _setup_handle_updates, lines 139-178, for the handle types hs; sk is what
\* sketch_update answers: "noop", "stm" (a statement and no sub-query) or
\* "sub" (a statement that calls the sub-query named by the fresh name n + 2)
_setup_handle_updates(I, hs, sk, n) ==
    IF hs = {} THEN I
    ELSE LET t  == CHOOSE h \in hs : TRUE
             op == CHOOSE o \in OpNames : TRUE
             modified_handles == <<"sub", n + 1, 0, <<>>>>
             sub_q == <<"sub", n + 2, 3, <<"x", "y">>>>
             r1 == IF sk = "sub" THEN _add_subquery(I, sub_q, {Call(sub_q, sub_q[4])})
                   ELSE <<I, {}>>
             r2 == IF sk = "noop" THEN r1
                   ELSE _add_subquery(r1[1], modified_handles,
                                      r1[2] \cup {Call(modified_handles, <<>>)})
         IN  [r2[1] EXCEPT !.handle_updates = (<<t, op>> :> r2[2]) @@ @]

ImplIdleDriver ==
    /\ improvement_jobs = <<>>
    /\ job = [q \in AllQueries |-> [pc |-> "none", stop_requested |-> FALSE, produced |-> 0,
                                    observed |-> FALSE]]
    /\ solutions_q = <<>>
    /\ yielded = 0
    /\ pc = "idle"
    /\ done = FALSE
    /\ timedOut = FALSE
    /\ improvements = <<>>
    /\ next_sub = 1
    /\ results = <<>>
    /\ applied = <<>>
    /\ specs_at_sort = <<>>
    /\ last_completed = EmptyImpl

NoCall == [op |-> "none"]

\* construct_initial_implementation, line 362: the empty Implementation
ImplInit ==
    /\ ImplIdleDriver
    /\ code = CodeIdle
    /\ fresh = FreshIdle
    /\ pure = PureIdle
    /\ impl = EmptyImpl
    /\ dedup_queries \in BOOLEAN
    /\ \E ms \in MethodLists, hs \in SUBSET HandleTypes :
          api = [pc |-> "add", methods |-> ms, handles |-> hs, i |-> 1, n |-> 0,
                 ncalls |-> 0, log |-> <<>>, last |-> NoCall]

ImplFrame == UNCHANGED <<dedup_queries, jobVars, mainVars, timedOut, histVars, code, fresh, pure>>

\* lines 363-365: impl.add_query(m) for the next Query method
ConstructAddQuery ==
    /\ api.pc = "add"
    /\ api.i <= Len(QueryMethods(api.methods))
    /\ LET q == QueryMethods(api.methods)[api.i]
       IN  /\ impl' = add_query(impl, q)
           /\ api' = [api EXCEPT !.i = @ + 1,
                                 !.pc = IF api.i = Len(QueryMethods(api.methods))
                                        THEN "handles" ELSE "add",
                                 !.log = Append(@, <<"add_query", q>>),
                                 !.last = [op |-> "add_query", q |-> q]]
    /\ ImplFrame

\* line 366: impl._setup_handle_updates()
ConstructSetupHandleUpdates ==
    /\ api.pc = "handles"
    /\ \E sk \in {"noop", "stm", "sub"} :
         /\ impl' = _setup_handle_updates(impl, api.handles, sk, api.n)
         /\ api' = [api EXCEPT !.pc = "cleanup", !.n = @ + 2,
                               !.log = Append(@, <<"_setup_handle_updates", NoSub>>),
                               !.last = [op |-> "_setup_handle_updates"]]
    /\ ImplFrame

\* line 367: impl.cleanup()
ConstructCleanup ==
    /\ api.pc = "cleanup"
    /\ impl' = cleanup(impl)
    /\ api' = [api EXCEPT !.pc = "ready",
                          !.log = Append(@, <<"cleanup", NoSub>>),
                          !.last = [op |-> "cleanup", before |-> impl]]
    /\ ImplFrame

\* a call of set_impl(q, rep, ret) for a query of query_specs
CallSetImpl ==
    /\ api.pc = "ready"
    /\ api.ncalls < MaxApiCalls
    /\ \E q \in Names(impl.query_specs) : \E c \in Candidates(impl, q, api.n) :
         /\ impl' = set_impl(impl, q, c.rep, c.ret, c.sub)
         /\ api' = [api EXCEPT !.ncalls = @ + 1, !.n = @ + 3,
                               !.last = [op |-> "set_impl", q |-> q, rep |-> c.rep,
                                         ret |-> c.ret, sub |-> c.sub]]
    /\ ImplFrame

\* a call of _add_subquery(sub_q, used_by), where used_by calls sub_q and
\* the first query of query_specs
CallAddSubquery ==
    /\ api.pc = "ready"
    /\ api.ncalls < MaxApiCalls
    /\ impl.query_specs # <<>>
    /\ \E sub_q \in SubShapes(api.n + 1) :
         LET used_by == {Call(sub_q, <<"a", "b">>), Call(impl.query_specs[1], <<"c", "d">>)}
             r == _add_subquery(impl, sub_q, used_by)
         IN  /\ impl' = r[1]
             /\ api' = [api EXCEPT !.ncalls = @ + 1, !.n = @ + 1,
                                   !.last = [op |-> "_add_subquery", sub_q |-> sub_q,
                                             used_by |-> used_by, ret |-> r[2],
                                             before |-> impl]]
    /\ ImplFrame

\* a call of cleanup()
CallCleanup ==
    /\ api.pc = "ready"
    /\ api.ncalls < MaxApiCalls
    /\ impl' = cleanup(impl)
    /\ api' = [api EXCEPT !.ncalls = @ + 1, !.last = [op |-> "cleanup", before |-> impl]]
    /\ ImplFrame

ImplNext ==
    \/ ConstructAddQuery
    \/ ConstructSetupHandleUpdates
    \/ ConstructCleanup
    \/ CallSetImpl
    \/ CallAddSubquery
    \/ CallCleanup

SpecImpl == ImplInit /\ [][ImplNext]_vars

(***************************************************************************)
(* Claims about the Implementation's methods.                              *)
(***************************************************************************)
StateVarNames(I) == {x[1] : x \in Names(I.concrete_state)}

\* C11: after any sequence of add_query, set_impl, _add_subquery and
\* cleanup calls no two entries of concrete_state have projections of the
\* same type that the solver judges equal, also when both entries come from
\* the rep of one set_impl call.
C11_NoEquivalentState ==
    \A i, j \in DOMAIN impl.concrete_state :
        LET e  == impl.concrete_state[i][2]
            ee == impl.concrete_state[j][2]
        IN  (i # j /\ e[1] = ee[1]) => ~valid(e, ee)

\* set_impl was called with a rep whose two projections the solver judges
\* equal and both its variables are in concrete_state
C11_SameRepDuplicates ==
    /\ api.pc = "ready"
    /\ api.last.op = "set_impl"
    /\ Len(api.last.rep) = 2
    /\ valid(api.last.rep[1][2], api.last.rep[2][2])
    /\ api.last.rep[1] \in Names(impl.concrete_state)
    /\ api.last.rep[2] \in Names(impl.concrete_state)

\* C12: after any sequence of add_query and _add_subquery calls, the
\* user's queries added through add_query included and for every value of
\* the option deduplicate-subqueries, no two entries of query_specs are
\* equivalent modulo argument reordering.
C12_NoEquivalentQueries ==
    \A i, j \in DOMAIN impl.query_specs :
        i # j => ~queries_equivalent(impl.query_specs[i], impl.query_specs[j])

\* C12 as the code has it: with the option deduplicate-subqueries on, an
\* entry of query_specs that _add_subquery appended (an Internal sub-query)
\* is equivalent modulo argument reordering to no entry before it.
C12_SubqueriesDeduplicated ==
    dedup_queries =>
        \A i, j \in DOMAIN impl.query_specs :
            (i < j /\ Visibility(impl.query_specs[j]) = "Internal")
                => ~queries_equivalent(impl.query_specs[i], impl.query_specs[j])

\* with the option on, _add_subquery was called for a sub-query that is
\* equivalent to a query of query_specs with the arguments in another
\* order, after another sub-query had been appended
C12_Witness ==
    /\ api.pc = "ready"
    /\ dedup_queries
    /\ api.last.op = "_add_subquery"
    /\ api.last.sub_q \notin Names(impl.query_specs)
    /\ \E q \in Names(impl.query_specs) :
          queries_equivalent(q, api.last.sub_q) /\ q[4] # api.last.sub_q[4]
    /\ \E q \in Names(impl.query_specs) : Visibility(q) = "Internal"

\* C13: after every completed set_impl and after every cleanup each query
\* of query_impls reads only state variables that are in concrete_state
\* (the arguments of a query are not state and are not among the reads):
\* none reads a variable that was deduplicated away or swept.
C13_ImplsReadOnlyConcreteState ==
    api.last.op \in {"set_impl", "cleanup"} =>
        \A q \in DOMAIN impl.query_impls :
            impl.query_impls[q].reads \subseteq StateVarNames(impl)

\* set_impl found a variable of rep equal to one of concrete_state, left it
\* out, and the query's implementation reads the one found instead
C13_Witness ==
    /\ api.pc = "ready"
    /\ api.last.op = "set_impl"
    /\ \E x \in Names(api.last.rep) :
          /\ x[1] \notin StateVarNames(impl)
          /\ x[1] \in api.last.ret.reads
          /\ x[1] \notin impl.query_impls[api.last.q].reads
    /\ impl.query_impls[api.last.q].reads # {}

\* C14: cleanup is idempotent on every reachable Implementation: a second
\* call right after the first leaves query_specs, query_impls,
\* concrete_state, updates and handle_updates as the first call left them.
C14_CleanupIdempotent ==
    LET once  == cleanup(impl)
        twice == cleanup(once)
    IN  /\ twice.query_specs    = once.query_specs
        /\ twice.query_impls    = once.query_impls
        /\ twice.concrete_state = once.concrete_state
        /\ twice.updates        = once.updates
        /\ twice.handle_updates = once.handle_updates

\* an Implementation from which the first cleanup removes a query, its
\* implementation, a state variable and an update
C14_Witness ==
    LET once == cleanup(impl)
    IN  /\ once.query_specs # <<>>
        /\ Len(once.query_specs) < Len(impl.query_specs)
        /\ DOMAIN once.query_impls # DOMAIN impl.query_impls
        /\ Len(once.concrete_state) < Len(impl.concrete_state)
        /\ DOMAIN once.updates # DOMAIN impl.updates

\* the queries an Implementation mentions
Mentioned(I) ==
    Names(I.query_specs) \cup DOMAIN I.query_impls
    \cup UNION {_queries_used_by(I.query_impls[q].calls) : q \in DOMAIN I.query_impls}
    \cup UNION {_queries_used_by(I.updates[key]) : key \in DOMAIN I.updates}
    \cup UNION {_queries_used_by(I.handle_updates[key]) : key \in DOMAIN I.handle_updates}

\* K holds every query called by the implementation of one of its members,
\* by an update of a state variable one of its members reads, or by a
\* handle update
ClosedUnderCalls(I, K) ==
    /\ \A q \in K \cap DOMAIN I.query_impls :
          /\ _queries_used_by(I.query_impls[q].calls) \subseteq K
          /\ \A sv \in I.query_impls[q].reads : \A key \in DOMAIN I.updates :
                key[1] = sv => _queries_used_by(I.updates[key]) \subseteq K
    /\ \A key \in DOMAIN I.handle_updates : _queries_used_by(I.handle_updates[key]) \subseteq K

\* the queries in every set that holds the Public queries and is closed
ReachableFromPublic(I) ==
    LET public == {q \in Names(I.query_specs) : Visibility(q) = "Public"}
    IN  {q \in Mentioned(I) :
            \A K \in SUBSET Mentioned(I) :
                (public \subseteq K /\ ClosedUnderCalls(I, K)) => q \in K}

\* C15: cleanup removes no Public query and keeps every query reachable
\* from the Public queries through the calls of query_impls, of the updates
\* of kept state variables and of handle_updates, with its implementation,
\* the state variables the kept implementations read and their updates;
\* every other query, implementation, state variable and update is deleted.
C15_CleanupKeepsReachableOnly ==
    api.last.op = "cleanup" =>
        LET I == api.last.before
            K == ReachableFromPublic(I)
            V == UNION {I.query_impls[q].reads : q \in K \cap DOMAIN I.query_impls}
        IN  /\ \A q \in Names(I.query_specs) :
                  Visibility(q) = "Public" => q \in Names(impl.query_specs)
            /\ impl.query_specs = SelectSeq(I.query_specs, LAMBDA q : q \in K)
            /\ impl.query_impls = [q \in DOMAIN I.query_impls \cap K |-> I.query_impls[q]]
            /\ impl.concrete_state = SelectSeq(I.concrete_state, LAMBDA x : x[1] \in V)
            /\ \A key \in DOMAIN I.updates :
                  IF key[1] \in V \cap StateVarNames(I)
                  THEN key \in DOMAIN impl.updates /\ impl.updates[key] = I.updates[key]
                  ELSE key \notin DOMAIN impl.updates
            /\ \A key \in DOMAIN impl.updates : key[1] \in StateVarNames(impl)
            /\ impl.handle_updates = I.handle_updates

\* cleanup kept a query that only an update of a kept state variable calls,
\* and removed a state variable with its update
C15_Witness ==
    /\ api.last.op = "cleanup"
    /\ \E q \in Names(impl.query_specs) :
          /\ Visibility(q) # "Public"
          /\ \A p \in DOMAIN impl.query_impls :
                q \notin _queries_used_by(impl.query_impls[p].calls)
          /\ \A key \in DOMAIN impl.handle_updates :
                q \notin _queries_used_by(impl.handle_updates[key])
          /\ \E key \in DOMAIN impl.updates : q \in _queries_used_by(impl.updates[key])
    /\ Len(impl.concrete_state) < Len(api.last.before.concrete_state)
    /\ DOMAIN impl.updates # DOMAIN api.last.before.updates

IsPrefix(s, t) == Len(s) <= Len(t) /\ SubSeq(t, 1, Len(s)) = s

\* what construct_initial_implementation is to call for the methods ms
ExpectedCalls(ms) ==
    LET queries == SelectSeq(ms, LAMBDA m : m[1] \in {"pub", "priv"})
    IN  [i \in 1..Len(queries) |-> <<"add_query", queries[i]>>]
        \o << <<"_setup_handle_updates", NoSub>>, <<"cleanup", NoSub>> >>

\* C16: construct_initial_implementation calls add_query for every Query
\* method in the order of declaration, then _setup_handle_updates exactly
\* once, then cleanup, and every Public query of the specification has an
\* entry in query_specs and in query_impls of the Implementation returned.
C16_ConstructionOrder ==
    /\ IsPrefix(api.log, ExpectedCalls(api.methods))
    /\ (api.pc = "ready" /\ api.ncalls = 0) =>
          /\ api.log = ExpectedCalls(api.methods)
          /\ \A i \in DOMAIN api.methods :
                api.methods[i][1] = "pub" =>
                    /\ api.methods[i] \in Names(impl.query_specs)
                    /\ api.methods[i] \in DOMAIN impl.query_impls

\* the Implementation returned for a Private query declared before an
\* operation and a Public query: the Private one was added and then swept
C16_Witness ==
    /\ api.pc = "ready"
    /\ api.ncalls = 0
    /\ api.methods = <<UserQuery(3), OpMethod, UserQuery(1)>>
    /\ Len(api.log) = 4
    /\ api.log[1] = <<"add_query", UserQuery(3)>>
    /\ Names(impl.query_specs) = {UserQuery(1)}

\* the call d is the call c of sub_q turned into a call of qq: its i-th
\* argument is the one c passed for the parameter of sub_q that has the
\* name of qq's i-th parameter
CallReplaced(c, d, sub_q, qq) ==
    /\ d[1] = qq
    /\ Len(d[2]) = Len(qq[4])
    /\ \A i \in DOMAIN qq[4] : \A j \in DOMAIN sub_q[4] :
          sub_q[4][j] = qq[4][i] => d[2][i] = c[2][j]

\* out is stm with every call of sub_q turned into a call of qq
StmReplaced(stm, out, sub_q, qq) ==
    /\ \A c \in stm :
          IF c[1] = sub_q THEN \E d \in out : CallReplaced(c, d, sub_q, qq)
          ELSE c \in out
    /\ \A d \in out :
          \/ d \in stm /\ d[1] # sub_q
          \/ \E c \in stm : c[1] = sub_q /\ CallReplaced(c, d, sub_q, qq)

\* what _add_subquery is to do when the queries of found are the ones it
\* may reuse
AddSubqueryEffect(found) ==
    LET I == api.last.before
        sub_q == api.last.sub_q
    IN  IF found # {}
        THEN /\ impl.query_specs = I.query_specs
             /\ impl.concrete_state = I.concrete_state
             /\ impl.query_impls = I.query_impls
             /\ impl.updates = I.updates
             /\ \E qq \in found : StmReplaced(api.last.used_by, api.last.ret, sub_q, qq)
        ELSE /\ impl = add_query(I, sub_q)
             /\ api.last.ret = api.last.used_by

\* C17 as stated: whenever query_specs holds a query equivalent to sub_q,
\* _add_subquery(sub_q, used_by) leaves query_specs, concrete_state,
\* query_impls and updates alone and returns used_by with the calls of
\* sub_q redirected; otherwise it adds sub_q and returns used_by.
C17_ReusesEveryEquivalentQuery ==
    api.last.op = "_add_subquery" =>
        AddSubqueryEffect({x \in Names(api.last.before.query_specs) :
                              queries_equivalent(x, api.last.sub_q)})

\* C17: with deduplicate-subqueries on, when query_specs holds a query
\* equivalent to sub_q, _add_subquery(sub_q, used_by) leaves query_specs,
\* concrete_state, query_impls and updates alone and returns used_by with
\* every call of sub_q replaced by a call of the existing query whose i-th
\* argument is the one sub_q's call passed for the existing query's i-th
\* parameter; otherwise, and always with the option off, sub_q is added by
\* add_query and used_by is returned as it is.
C17_ReusesEquivalentQueryWhenDedup ==
    api.last.op = "_add_subquery" =>
        AddSubqueryEffect({x \in Names(api.last.before.query_specs) :
                              dedup_queries /\ queries_equivalent(x, api.last.sub_q)})

\* a sub-query equal to a user query up to the order of the parameters was
\* redirected to it, the arguments of its call permuted
C17_Witness ==
    /\ api.last.op = "_add_subquery"
    /\ dedup_queries
    /\ impl = api.last.before
    /\ api.last.sub_q[4] = <<"y", "x">>
    /\ Call(api.last.sub_q, <<"a", "b">>) \in api.last.used_by
    /\ Call(UserQuery(1), <<"b", "a">>) \in api.last.ret
    /\ Call(UserQuery(1), <<"c", "d">>) \in api.last.ret

\* every entry of the dictionary d is in e with the same statement
KeepsEntries(d, e) ==
    \A key \in DOMAIN d : key \in DOMAIN e /\ e[key] = d[key]

\* the four containers of J hold what those of I hold, in place
OnlyGrows(I, J) ==
    /\ IsPrefix(I.concrete_state, J.concrete_state)
    /\ IsPrefix(I.query_specs, J.query_specs)
    /\ KeepsEntries(I.updates, J.updates)
    /\ KeepsEntries(I.handle_updates, J.handle_updates)

\* C18: concrete_state, query_specs, updates and handle_updates only grow
\* under add_query, set_impl, _add_subquery and _setup_handle_updates: none
\* of them removes an entry or replaces the statement registered for an
\* existing (variable, op) key; entries disappear only in cleanup.
C18_OnlyCleanupRemoves ==
    [][api'.last.op = "cleanup" \/ OnlyGrows(impl, impl')]_vars

\* a set_impl that added two state variables, their updates and a sub-query
\* to an Implementation that had state, updates and a handle update
C18_Witness ==
    /\ api.last.op = "set_impl"
    /\ Len(api.last.rep) = 2
    /\ \A x \in Names(api.last.rep) :
          /\ x \in Names(impl.concrete_state)
          /\ \A op \in OpNames : <<x[1], op>> \in DOMAIN impl.updates
    /\ api.last.sub \in Names(impl.query_specs)
    /\ Len(impl.concrete_state) > 2
    /\ DOMAIN impl.handle_updates # {}
    /\ \E key \in DOMAIN impl.updates : key[1] \notin {x[1] : x \in Names(api.last.rep)}

\* the update keys cover the state variables of I
Covered(I) ==
    \A x \in Names(I.concrete_state), op \in OpNames : <<x[1], op>> \in DOMAIN I.updates

\* the state variables whose updates the mark phase of cleanup looks up
\* (line 331)
LookedUp(I) ==
    LET queries_to_keep == Mark(I, {q \in Names(I.query_specs) : Visibility(q) = "Public"})
    IN  UNION {I.query_impls[q].reads : q \in queries_to_keep \cap DOMAIN I.query_impls}

\* C28: after any sequence of add_query, set_impl and cleanup calls the
\* keys of updates cover concrete_state: updates holds an entry for every
\* state variable and every op, so that no lookup in cleanup falls back to
\* the defaultdict's implicit no-op, and after cleanup no key of updates
\* names a variable that is absent from concrete_state.
C28_UpdatesCoverState ==
    /\ Covered(impl)
    /\ api.last.op = "cleanup" =>
          /\ \A sv \in LookedUp(api.last.before), op \in OpNames :
                 <<sv, op>> \in DOMAIN api.last.before.updates
          /\ \A key \in DOMAIN impl.updates :
                 \E x \in Names(impl.concrete_state) : x[1] = key[1]

\* a cleanup removed a state variable together with its updates and kept
\* another with its updates
C28_Witness ==
    /\ api.last.op = "cleanup"
    /\ impl.concrete_state # <<>>
    /\ \E x \in Names(api.last.before.concrete_state) :
          /\ x \notin Names(impl.concrete_state)
          /\ \E key \in DOMAIN api.last.before.updates : key[1] = x[1]

(***************************************************************************)
(* typecheck (typecheck.py).                                               *)
(*                                                                         *)
(*   SpecTypecheck  one call typecheck(ast, env) on an expression of depth *)
(*                  at most MaxAstDepth, env binding x to INT and m to a   *)
(*                  map.  pure.res is what the call did: whether it        *)
(*                  raised, the error list, and the tree as annotated.     *)
(*                                                                         *)
(* A node is [tag, op, kids, type]: op is the variable or the operator,    *)
(* type the .type attribute, NoType when the node has none.  The types are *)
(* INT, BOOL, TBag (a bag of INT) and TMap (a map from INT to BOOL).       *)
(***************************************************************************)
MaxAstDepth == 1

Node(tag, op, kids, type) == [tag |-> tag, op |-> op, kids |-> kids, type |-> type]
NoType == "none"
DEFAULT_TYPE == "DEFAULT"
INT == "Int"
BOOL == "Bool"
TBag == "Bag"
TMap == "Map"

\* typecheck's env argument
TcEnv == [x |-> INT, m |-> TMap]

UnaryOps == {"not", "-", "?"}

\* variables bound and unbound, literals with and without a type, empty
\* collections with and without a type
TcLeaves ==
    {Node("EVar", v, <<>>, NoType) : v \in {"x", "m", "u"}}
    \cup {Node("EBool", "", <<>>, NoType)}
    \cup {Node("ENum", "", <<>>, t) : t \in {INT, NoType}}
    \cup {Node("EEmptyList", "", <<>>, t) : t \in {TBag, NoType}}

RECURSIVE TcExps(_)
TcExps(d) ==
    IF d = 0 THEN TcLeaves
    ELSE LET S == TcExps(d - 1)
         IN  S \cup {Node("EMapGet", "", <<a, b>>, NoType) : a \in S, b \in S}
               \cup {Node("EUnaryOp", op, <<a>>, NoType) : op \in UnaryOps, a \in S}
               \cup {Node("ELet", "", <<a, Node("ELambda", "",
                                            <<Node("EVar", "x", <<>>, NoType), b>>, NoType)>>,
                          NoType) : a \in S, b \in S}

\* what a visit did: raised, self.errors, and the node as it is now
Res(raised, errors, e) == [raised |-> raised, errors |-> errors, e |-> e]

\* lines 198-204
get_collection_type(e, errors) ==
    IF e.type = DEFAULT_TYPE THEN <<DEFAULT_TYPE, errors>>
    ELSE IF e.type = TBag THEN <<INT, errors>>
    ELSE <<DEFAULT_TYPE, Append(errors, "expression has non-collection type")>>

\* lines 164-168, for an expression that has been visited
ensure_type(e, t, errors) ==
    IF t # DEFAULT_TYPE /\ e.type # DEFAULT_TYPE /\ e.type # t
    THEN Append(errors, "expression has the wrong type")
    ELSE errors

\* lines 177-181
ensure_numeric(e, errors) ==
    IF e.type = DEFAULT_TYPE \/ e.type = INT THEN errors
    ELSE Append(errors, "expression has non-numeric type")

RECURSIVE visit(_, _, _)

\* lines 419-424
visit_EVar(e, env, errors) ==
    IF e.op \in DOMAIN env
    THEN Res(FALSE, errors, [e EXCEPT !.type = env[e.op]])
    ELSE Res(FALSE, Append(errors, "no var in scope"), [e EXCEPT !.type = DEFAULT_TYPE])

\* lines 272-273
visit_EBool(e, env, errors) == Res(FALSE, errors, [e EXCEPT !.type = BOOL])

\* lines 275-278
visit_ENum(e, env, errors) ==
    IF e.type = NoType
    THEN Res(FALSE, Append(errors, "not sure what the type of numeric literal is"),
             [e EXCEPT !.type = DEFAULT_TYPE])
    ELSE Res(FALSE, errors, e)

\* lines 358-362: without a type the error is reported and no type is set
visit_EEmptyList(e, env, errors) ==
    IF e.type = NoType
    THEN Res(FALSE, Append(errors, "unable to infer type for empty collection"), e)
    ELSE Res(FALSE, get_collection_type(e, errors)[2], e)

\* lines 507-514: line 513 reads e.map.type.k whatever e.map.type is, an
\* AttributeError when it is not a TMap
visit_EMapGet(e, env, errors) ==
    LET r1 == visit(e.kids[1], env, errors)
        r2 == visit(e.kids[2], env, r1.errors)
        e1 == [e EXCEPT !.kids[1] = r1.e]
        e2 == [e1 EXCEPT !.kids[2] = r2.e]
    IN  IF r1.raised THEN Res(TRUE, r1.errors, e1)
        ELSE IF r2.raised THEN Res(TRUE, r2.errors, e2)
        ELSE IF r1.e.type # TMap
             THEN Res(TRUE, Append(r2.errors, "is not a map"),
                      [e2 EXCEPT !.type = DEFAULT_TYPE])
             ELSE Res(FALSE, ensure_type(r2.e, INT, r2.errors), [e2 EXCEPT !.type = BOOL])

\* lines 226-256: an operator that is none of the known ones raises
\* NotImplementedError
visit_EUnaryOp(e, env, errors) ==
    LET r  == visit(e.kids[1], env, errors)
        e1 == [e EXCEPT !.kids[1] = r.e]
    IN  IF r.raised THEN Res(TRUE, r.errors, e1)
        ELSE IF e.op = "not"
             THEN Res(FALSE, ensure_type(r.e, BOOL, r.errors), [e1 EXCEPT !.type = BOOL])
        ELSE IF e.op = "-"
             THEN Res(FALSE, ensure_numeric(r.e, r.errors), [e1 EXCEPT !.type = r.e.type])
        ELSE Res(TRUE, r.errors, e1)

\* lines 296-299
visit_ELambda(e, env, errors) ==
    LET r == visit(e.kids[2], (e.kids[1].op :> e.kids[1].type) @@ env, errors)
    IN  Res(r.raised, r.errors, [e EXCEPT !.kids[2] = r.e])

\* lines 220-224
visit_ELet(e, env, errors) ==
    LET r1 == visit(e.kids[1], env, errors)
        e1 == [e EXCEPT !.kids[1] = r1.e]
        e2 == [e1 EXCEPT !.kids[2].kids[1].type = r1.e.type]
        r2 == visit(e2.kids[2], env, r1.errors)
        e3 == [e2 EXCEPT !.kids[2] = r2.e]
    IN  IF r1.raised THEN Res(TRUE, r1.errors, e1)
        ELSE IF r2.raised THEN Res(TRUE, r2.errors, e3)
        ELSE Res(FALSE, r2.errors, [e3 EXCEPT !.type = r2.e.kids[2].type])

\* lines 624-629: an expression that is not a lambda and is left without a
\* type raises Exception
visit(x, env, errors) ==
    LET res == CASE x.tag = "EVar"       -> visit_EVar(x, env, errors)
                 [] x.tag = "EBool"      -> visit_EBool(x, env, errors)
                 [] x.tag = "ENum"       -> visit_ENum(x, env, errors)
                 [] x.tag = "EEmptyList" -> visit_EEmptyList(x, env, errors)
                 [] x.tag = "EMapGet"    -> visit_EMapGet(x, env, errors)
                 [] x.tag = "EUnaryOp"   -> visit_EUnaryOp(x, env, errors)
                 [] x.tag = "ELet"       -> visit_ELet(x, env, errors)
                 [] OTHER                -> visit_ELambda(x, env, errors)
    IN  IF ~res.raised /\ x.tag # "ELambda" /\ res.e.type = NoType
        THEN Res(TRUE, res.errors, res.e)
        ELSE res

\* lines 6-14
typecheck(ast, env) == visit(ast, env, <<>>)

TcInit ==
    /\ ImplIdleDriver
    /\ impl = EmptyImpl
    /\ dedup_queries = TRUE
    /\ code = CodeIdle
    /\ fresh = FreshIdle
    /\ api = ApiIdle
    /\ \E e \in TcExps(MaxAstDepth) : pure = [pc |-> "typecheck", ast |-> e]

TypecheckCall ==
    /\ pure.pc = "typecheck"
    /\ pure' = [pc |-> "typechecked", ast |-> pure.ast, res |-> typecheck(pure.ast, TcEnv)]
    /\ UNCHANGED <<driverVars, code, fresh, api>>

SpecTypecheck == TcInit /\ [][TypecheckCall]_vars

\* every expression of the tree that is not a lambda has a type
RECURSIVE AllTyped(_)
AllTyped(e) ==
    /\ e.tag = "ELambda" \/ e.type # NoType
    /\ \A i \in DOMAIN e.kids : AllTyped(e.kids[i])

\* C19: typecheck never raises, whatever the tree: a type error (a map-get
\* on something that is not a map, an empty collection without a type, an
\* unknown operator, an unknown variable) goes to the error list returned,
\* the walk visits the whole tree, and afterwards every expression that is
\* not a lambda has a type, DEFAULT_TYPE where none could be decided.
C19_TypecheckNeverRaises ==
    pure.pc = "typechecked" =>
        /\ ~pure.res.raised
        /\ AllTyped(pure.res.e)

\* a map-get on a variable of type INT: the error is reported and the call
\* raises all the same
C19_MapGetOnNonMapRaises ==
    /\ pure.pc = "typechecked"
    /\ pure.ast = Node("EMapGet", "", <<Node("EVar", "x", <<>>, NoType),
                                        Node("ENum", "", <<>>, INT)>>, NoType)
    /\ pure.res.raised
    /\ pure.res.errors = <<"is not a map">>

(***************************************************************************)
(* subst (syntax_tools.py).                                                *)
(*                                                                         *)
(*   SpecSubst  one call subst(e, replacements) on an expression of depth  *)
(*              at most MaxExpDepth over the variables x and y, with the   *)
(*              empty map, {x: x}, {x: y}, {x: y, y: x} or {x: y + y}.     *)
(*                                                                         *)
(* A variable's id is <<hint, n>>: <<"x", 0>> and <<"y", 0>> are the ids   *)
(* of the input, <<"_var", n>> is the n-th name fresh_var hands out.       *)
(* Equality of expressions is ADT.__eq__ (common.py:166-168): the classes  *)
(* and the children, not the .type attribute, which the nodes of this      *)
(* section all leave at NoType.                                            *)
(***************************************************************************)
MaxExpDepth == 2

NoId == <<"", 0>>
EVar(id) == Node("EVar", id, <<>>, NoType)
ENum == Node("ENum", NoId, <<>>, NoType)
ELambda(arg, body) == Node("ELambda", NoId, <<arg, body>>, NoType)
EBinOp(e1, e2) == Node("EBinOp", NoId, <<e1, e2>>, NoType)

VarX == EVar(<<"x", 0>>)
VarY == EVar(<<"y", 0>>)

RECURSIVE Exps(_)
Exps(d) ==
    IF d = 0 THEN {VarX, VarY, ENum}
    ELSE LET S == Exps(d - 1)
         IN  S \cup {ELambda(arg, body) : arg \in {VarX, VarY}, body \in S}
               \cup {EBinOp(e1, e2) : e1 \in S, e2 \in S}

\* the replacement maps: a function from ids to expressions
NoReplacements == [id \in {} |-> ENum]
Replacements ==
    {NoReplacements, VarX.op :> VarX, VarX.op :> VarY,
     (VarX.op :> VarY) @@ (VarY.op :> VarX), VarX.op :> EBinOp(VarY, VarY)}

\* free_vars, lines 346-392, as the set of the ids
RECURSIVE free_vars(_)
free_vars(exp) ==
    IF exp.tag = "EVar" THEN {exp.op}
    ELSE IF exp.tag = "ELambda" THEN free_vars(exp.kids[2]) \ {exp.kids[1].op}
    ELSE UNION {free_vars(exp.kids[i]) : i \in DOMAIN exp.kids}

\* fresh_var, lines 18-19, when n names have been handed out
fresh_var(n) == EVar(<<"_var", n + 1>>)

\* subst gives the pair <<expression, names handed out>>
RECURSIVE subst(_, _, _)

\* lines 662-663
Subst_visit_EVar(var, replacements, n) ==
    <<IF var.op \in DOMAIN replacements THEN replacements[var.op] ELSE var, n>>

\* a variant that keeps the lambda's argument whatever the replacements are
Subst_visit_ELambda_NoRename(e, replacements, n) ==
    LET m == [id \in DOMAIN replacements \ {e.kids[1].op} |-> replacements[id]]
        r == subst(e.kids[2], m, n)
    IN  <<ELambda(e.kids[1], r[1]), r[2]>>

\* lines 692-706: the loop of line 699 looks at the values of replacements,
\* the mapping of the lambda's own argument included
Subst_visit_ELambda(e, replacements, n) ==
    LET m == [id \in DOMAIN replacements \ {e.kids[1].op} |-> replacements[id]]
        captured == \E id \in DOMAIN replacements :
                        e.kids[1].op \in free_vars(replacements[id])
        new_arg == fresh_var(n)
        renamed == subst(e.kids[2], e.kids[1].op :> new_arg, n + 1)
        arg  == IF captured THEN new_arg ELSE e.kids[1]
        body == IF captured THEN renamed ELSE <<e.kids[2], n>>
        r    == subst(body[1], m, body[2])
    IN  <<ELambda(arg, r[1]), r[2]>>

\* lines 707-710, for a node with no child, one child or two
Subst_visit_ADT(e, replacements, n) ==
    IF e.kids = <<>> THEN <<e, n>>
    ELSE LET r1 == subst(e.kids[1], replacements, n)
         IN  IF Len(e.kids) = 1 THEN <<[e EXCEPT !.kids = <<r1[1]>>], r1[2]>>
             ELSE LET r2 == subst(e.kids[2], replacements, r1[2])
                  IN  <<[e EXCEPT !.kids = <<r1[1], r2[1]>>], r2[2]>>

\* lines 647-750
subst(exp, replacements, n) ==
    CASE exp.tag = "EVar"    -> Subst_visit_EVar(exp, replacements, n)
      [] exp.tag = "ELambda" -> Subst_visit_ELambda(exp, replacements, n)
      [] OTHER               -> Subst_visit_ADT(exp, replacements, n)

SubstInit ==
    /\ ImplIdleDriver
    /\ impl = EmptyImpl
    /\ dedup_queries = TRUE
    /\ code = CodeIdle
    /\ fresh = FreshIdle
    /\ api = ApiIdle
    /\ \E e \in Exps(MaxExpDepth), r \in Replacements :
          pure = [pc |-> "subst", exp |-> e, replacements |-> r]

SubstCall ==
    /\ pure.pc = "subst"
    /\ pure' = [pc |-> "substituted", exp |-> pure.exp, replacements |-> pure.replacements,
                res |-> subst(pure.exp, pure.replacements, 0)[1]]
    /\ UNCHANGED <<driverVars, code, fresh, api>>

SpecSubst == SubstInit /\ [][SubstCall]_vars

\* C20: for every expression e, lambdas that bind x included, subst(e, {})
\* is structurally equal to e and subst(e, {x: x}) is structurally equal
\* to e.
C20_IdentitySubstitution ==
    (pure.pc = "substituted" /\ pure.replacements \in {NoReplacements, VarX.op :> VarX})
        => pure.res = pure.exp

\* subst(\x. x, {x: x}) is the lambda with its argument renamed
C20_BoundVariableRenamed ==
    /\ pure.pc = "substituted"
    /\ pure.replacements = (VarX.op :> VarX)
    /\ pure.exp = ELambda(VarX, VarX)
    /\ pure.res = ELambda(fresh_var(0), fresh_var(0))

\* C21: subst is capture-avoiding for lambdas: the free variables of
\* subst(e, m) are the free variables of e that m does not replace together
\* with the free variables of the replacements of the names free in e, so a
\* variable free in an inserted value stays free where it was inserted and
\* an occurrence of a lambda's own bound variable is never replaced.
C21_CaptureAvoiding ==
    pure.pc = "substituted" =>
        free_vars(pure.res) =
            (free_vars(pure.exp) \ DOMAIN pure.replacements)
            \cup UNION {free_vars(pure.replacements[id]) :
                           id \in free_vars(pure.exp) \cap DOMAIN pure.replacements}

\* subst(\y. x + y, {x: y}): the argument y is renamed, its occurrence
\* with it, and the free x becomes a free y
C21_Witness ==
    /\ pure.pc = "substituted"
    /\ pure.replacements = (VarX.op :> VarY)
    /\ pure.exp = ELambda(VarY, EBinOp(VarX, VarY))
    /\ pure.res = ELambda(fresh_var(0), EBinOp(VarY, fresh_var(0)))
    /\ free_vars(pure.res) = {VarY.op}

(***************************************************************************)
(* subst on a method (syntax_tools.py:721-743).                            *)
(*                                                                         *)
(*   SpecSubstMethod  one call subst(q, replacements) on a Query or an Op  *)
(*                    with up to two arguments, at most one assumption and *)
(*                    a body of depth below MaxExpDepth.                   *)
(*                                                                         *)
(* A method is [tag, name, args, assumptions, body]: args the names of the *)
(* arguments, body the ret of a Query or the body of an Op.  pure.res is   *)
(* [raised, error, value]: the error names the argument and the method.    *)
(***************************************************************************)
Method(tag, name, args, assumptions, body) ==
    [tag |-> tag, name |-> name, args |-> args, assumptions |-> assumptions, body |-> body]

NoMethod == Method("none", "", <<>>, <<>>, ENum)
NoError == [kind |-> "none", arg |-> NoId, method |-> ""]

Methods ==
    {Method(tag, "f", args, assumptions, body) :
        tag \in {"Query", "Op"},
        args \in {<<>>, <<VarX.op>>, <<VarY.op>>, <<VarX.op, VarY.op>>},
        assumptions \in {<<>>} \cup {<<a>> : a \in Exps(0)},
        body \in Exps(MaxExpDepth - 1)}

\* lines 723-726 and 735-738: the arguments some replacement value mentions
CapturedArgs(q, replacements) ==
    {i \in DOMAIN q.args :
        \E id \in DOMAIN replacements : q.args[i] \in free_vars(replacements[id])}

\* a variant that applies every replacement inside the method
visit_Method_AppliesShadowed(q, replacements) ==
    IF CapturedArgs(q, replacements) # {}
    THEN LET i == CHOOSE i \in CapturedArgs(q, replacements) :
                      \A j \in CapturedArgs(q, replacements) : i <= j
         IN  [raised |-> TRUE,
              error  |-> [kind |-> q.tag, arg |-> q.args[i], method |-> q.name],
              value  |-> NoMethod]
    ELSE [raised |-> FALSE, error |-> NoError,
          value  |-> [q EXCEPT !.assumptions =
                                   [i \in DOMAIN @ |-> subst(@[i], replacements, 0)[1]],
                               !.body = subst(@, replacements, 0)[1]]]

\* visit_Query, lines 721-732, and visit_Op, lines 733-743: the first
\* argument a replacement value mentions raises NotImplementedError
visit_Method(q, replacements) ==
    LET m == [id \in {id \in DOMAIN replacements : \A i \in DOMAIN q.args : q.args[i] # id}
                 |-> replacements[id]]
    IN  IF CapturedArgs(q, replacements) # {}
        THEN LET i == CHOOSE i \in CapturedArgs(q, replacements) :
                          \A j \in CapturedArgs(q, replacements) : i <= j
             IN  [raised |-> TRUE,
                  error  |-> [kind |-> q.tag, arg |-> q.args[i], method |-> q.name],
                  value  |-> NoMethod]
        ELSE [raised |-> FALSE, error |-> NoError,
              value  |-> [q EXCEPT !.assumptions = [i \in DOMAIN @ |-> subst(@[i], m, 0)[1]],
                                   !.body = subst(@, m, 0)[1]]]

SubstMethodInit ==
    /\ ImplIdleDriver
    /\ impl = EmptyImpl
    /\ dedup_queries = TRUE
    /\ code = CodeIdle
    /\ fresh = FreshIdle
    /\ api = ApiIdle
    /\ \E q \in Methods, r \in Replacements :
          pure = [pc |-> "subst_method", method |-> q, replacements |-> r]

SubstMethodCall ==
    /\ pure.pc = "subst_method"
    /\ pure' = [pc |-> "substituted_method", method |-> pure.method,
                replacements |-> pure.replacements,
                res |-> visit_Method(pure.method, pure.replacements)]
    /\ UNCHANGED <<driverVars, code, fresh, api>>

SpecSubstMethod == SubstMethodInit /\ [][SubstMethodCall]_vars

\* the free variables of a method: those of its assumptions and its body
\* that are not arguments
MethodFreeVars(q) ==
    (free_vars(q.body) \cup UNION {free_vars(q.assumptions[i]) : i \in DOMAIN q.assumptions})
    \ {q.args[i] : i \in DOMAIN q.args}

MaxAlphaDepth == 2

ETuple(es) == Node("ETuple", NoId, es, NoType)
Field(name, value) == Node("Field", <<name, 0>>, <<value>>, NoType)
EMakeRecord(fields) == Node("EMakeRecord", NoId, fields, NoType)
CPull(id, e) == Node("CPull", id, <<e>>, NoType)
CCond(e) == Node("CCond", NoId, <<e>>, NoType)
EListComprehension(e, clauses) == Node("EListComprehension", NoId, <<e>> \o clauses, NoType)

\* the sequences of at most two members of S
UpToTwo(S) == {<<>>} \cup {<<a>> : a \in S} \cup {<<a, b>> : a \in S, b \in S}

RECURSIVE AlphaExps(_)
AlphaExps(d) ==
    IF d = 0 THEN {VarX, VarY, ENum}
    ELSE LET S == AlphaExps(d - 1)
         IN  S \cup {ELambda(arg, body) : arg \in {VarX, VarY}, body \in S}
               \cup {ETuple(es) : es \in UpToTwo({ENum, VarX})}
               \cup {EMakeRecord(fs) : fs \in UpToTwo({Field(f, ENum) : f \in {"x", "y"}})}
               \cup {EListComprehension(VarX, <<CPull(VarX.op, VarY)>>),
                     EListComprehension(VarX, <<CCond(VarX)>>)}

NoRemap == [id \in {} |-> 0]

RECURSIVE V_visit(_, _, _, _, _)

\* all(self.visit(a, b) for (a, b) in zip(s1, s2)) from the i-th pair on:
\* zip stops at the end of the shorter sequence, all at the first answer
\* that is not True
RECURSIVE V_all(_, _, _, _, _, _)
V_all(s1, s2, i, remap_l, remap_r, depth) ==
    IF i > Len(s1) \/ i > Len(s2) THEN "T"
    ELSE LET a == V_visit(s1[i], s2[i], remap_l, remap_r, depth)
         IN  IF a = "T" THEN V_all(s1, s2, i + 1, remap_l, remap_r, depth) ELSE a

\* lines 793-796: a bound name stands for the depth of its binder
V_visit_EVar(e1, e2, remap_l, remap_r, depth) ==
    IF e2.tag # "EVar" THEN "F"
    ELSE LET a == IF e1.op \in DOMAIN remap_l THEN <<"#", remap_l[e1.op]>> ELSE e1.op
             b == IF e2.op \in DOMAIN remap_r THEN <<"#", remap_r[e2.op]>> ELSE e2.op
         IN  IF a = b THEN "T" ELSE "F"

\* lines 797-800
V_visit_ETuple(e1, e2, remap_l, remap_r, depth) ==
    IF e2.tag # "ETuple" THEN "F"
    ELSE V_all(e1.kids, e2.kids, 1, remap_l, remap_r, depth)

\* lines 801-803: k1 == k2 and self.visit(v1, v2) for the zipped fields
V_visit_EMakeRecord(e1, e2, remap_l, remap_r, depth) ==
    IF e2.tag # "EMakeRecord" THEN "F"
    ELSE V_all(e1.kids, e2.kids, 1, remap_l, remap_r, depth)

V_visit_Field(f1, f2, remap_l, remap_r, depth) ==
    IF f1.op # f2.op THEN "F"
    ELSE V_visit(f1.kids[1], f2.kids[1], remap_l, remap_r, depth)

\* lines 804-808 with unify, lines 780-791
V_visit_ELambda(e1, e2, remap_l, remap_r, depth) ==
    IF e2.tag # "ELambda" THEN "F"
    ELSE V_visit(e1.kids[2], e2.kids[2],
                 (e1.kids[1].op :> depth + 1) @@ remap_l,
                 (e2.kids[1].op :> depth + 1) @@ remap_r, depth + 1)

\* visit_clauses, lines 814-828: unify is declared for pairs of EVar and is
\* handed the two CPull clauses, which its type check rejects with an
\* AssertionError (common.py:28-36)
RECURSIVE V_visit_clauses(_, _, _, _, _, _)
V_visit_clauses(i, e1, e2, remap_l, remap_r, depth) ==
    IF i > Len(e1.kids) THEN V_visit(e1.kids[1], e2.kids[1], remap_l, remap_r, depth)
    ELSE IF e1.kids[i].tag = "CPull"
         THEN IF e2.kids[i].tag # "CPull" THEN "F" ELSE "raise"
         ELSE LET a == V_visit(e1.kids[i].kids[1], e2.kids[i].kids[1], remap_l, remap_r, depth)
              IN  IF a = "T" THEN V_visit_clauses(i + 1, e1, e2, remap_l, remap_r, depth)
                  ELSE a

\* lines 809-813
V_visit_EListComprehension(e1, e2, remap_l, remap_r, depth) ==
    IF e2.tag # "EListComprehension" THEN "F"
    ELSE IF Len(e1.kids) # Len(e2.kids) THEN "F"
    ELSE V_visit_clauses(2, e1, e2, remap_l, remap_r, depth)

\* lines 837-840
V_visit_Exp(e1, e2, remap_l, remap_r, depth) ==
    IF e1.tag # e2.tag THEN "F"
    ELSE IF e1.op # e2.op THEN "F"
    ELSE V_all(e1.kids, e2.kids, 1, remap_l, remap_r, depth)

V_visit(e1, e2, remap_l, remap_r, depth) ==
    CASE e1.tag = "EVar"               -> V_visit_EVar(e1, e2, remap_l, remap_r, depth)
      [] e1.tag = "ETuple"             -> V_visit_ETuple(e1, e2, remap_l, remap_r, depth)
      [] e1.tag = "EMakeRecord"        -> V_visit_EMakeRecord(e1, e2, remap_l, remap_r, depth)
      [] e1.tag = "Field"              -> V_visit_Field(e1, e2, remap_l, remap_r, depth)
      [] e1.tag = "ELambda"            -> V_visit_ELambda(e1, e2, remap_l, remap_r, depth)
      [] e1.tag = "EListComprehension" -> V_visit_EListComprehension(e1, e2, remap_l, remap_r, depth)
      [] OTHER                         -> V_visit_Exp(e1, e2, remap_l, remap_r, depth)

\* lines 764-852
alpha_equivalent(e1, e2) == V_visit(e1, e2, NoRemap, NoRemap, 0)

AlphaInit ==
    /\ ImplIdleDriver
    /\ impl = EmptyImpl
    /\ dedup_queries = TRUE
    /\ code = CodeIdle
    /\ fresh = FreshIdle
    /\ api = ApiIdle
    /\ \E e1 \in AlphaExps(MaxAlphaDepth), e2 \in AlphaExps(MaxAlphaDepth),
          e3 \in AlphaExps(MaxAlphaDepth - 1) :
          pure = [pc |-> "alpha", e1 |-> e1, e2 |-> e2, e3 |-> e3]

AlphaCall ==
    /\ pure.pc = "alpha"
    /\ pure' = [pc |-> "compared", e1 |-> pure.e1, e2 |-> pure.e2, e3 |-> pure.e3,
                r11 |-> alpha_equivalent(pure.e1, pure.e1),
                r12 |-> alpha_equivalent(pure.e1, pure.e2),
                r21 |-> alpha_equivalent(pure.e2, pure.e1),
                r23 |-> alpha_equivalent(pure.e2, pure.e3),
                r13 |-> alpha_equivalent(pure.e1, pure.e3)]
    /\ UNCHANGED <<driverVars, code, fresh, api>>

SpecAlpha == AlphaInit /\ [][AlphaCall]_vars

\* C23: alpha_equivalent is an equivalence relation: alpha_equivalent(e, e)
\* is True for every e, list comprehensions with pull clauses included,
\* alpha_equivalent(e1, e2) implies alpha_equivalent(e2, e1), and
\* alpha_equivalent(e1, e2) with alpha_equivalent(e2, e3) implies
\* alpha_equivalent(e1, e3).
C23_AlphaIsEquivalence ==
    pure.pc = "compared" =>
        /\ pure.r11 = "T"
        /\ pure.r12 = "T" => pure.r21 = "T"
        /\ (pure.r12 = "T" /\ pure.r23 = "T") => pure.r13 = "T"

\* a list comprehension with a pull clause compared with itself raises
C23_PullClauseRaises ==
    /\ pure.pc = "compared"
    /\ pure.e1 = EListComprehension(VarX, <<CPull(VarX.op, VarY)>>)
    /\ pure.r11 = "raise"

\* e with every bound occurrence replaced by the level of its binder and
\* the names of the binders dropped; binders are the names bound around e,
\* the innermost last
RECURSIVE Nameless(_, _)

\* the names the pull clauses before the i-th child of a list comprehension bind
PulledBefore(e, i) ==
    LET pulls == SelectSeq([j \in 1..(i - 1) |-> e.kids[j]], LAMBDA c : c.tag = "CPull")
    IN  [j \in DOMAIN pulls |-> pulls[j].op]

Nameless(e, binders) ==
    CASE e.tag = "EVar" ->
            LET hits == {i \in DOMAIN binders : binders[i] = e.op}
            IN  IF hits = {} THEN e
                ELSE EVar(<<"#", CHOOSE i \in hits : \A j \in hits : j <= i>>)
      [] e.tag = "ELambda" ->
            Node("ELambda", NoId, <<Nameless(e.kids[2], Append(binders, e.kids[1].op))>>, NoType)
      [] e.tag = "EListComprehension" ->
            Node("EListComprehension", NoId,
                 [i \in DOMAIN e.kids |->
                    IF i = 1
                    THEN Nameless(e.kids[1], binders \o PulledBefore(e, Len(e.kids) + 1))
                    ELSE Node(e.kids[i].tag, NoId,
                              <<Nameless(e.kids[i].kids[1], binders \o PulledBefore(e, i))>>,
                              NoType)],
                 NoType)
      [] OTHER ->
            [e EXCEPT !.kids = [i \in DOMAIN e.kids |-> Nameless(e.kids[i], binders)]]

\* C24: alpha_equivalent(e1, e2) is True exactly when e1 and e2 are equal
\* up to a consistent renaming of the bound names: bound occurrences refer
\* to binders at the same depth, free variables have the same name, the
\* variants are the same, tuples have the same elements and records the
\* same field names in the same order with equivalent values.
C24_AlphaIsRenaming ==
    pure.pc = "compared" =>
        (pure.r12 = "T" <=> Nameless(pure.e1, <<>>) = Nameless(pure.e2, <<>>))

\* a tuple of one element is judged equivalent to a tuple of two
C24_ShorterTupleEquivalent ==
    /\ pure.pc = "compared"
    /\ pure.e1 = ETuple(<<ENum>>)
    /\ pure.e2 = ETuple(<<ENum, VarX>>)
    /\ pure.r12 = "T"

(***************************************************************************)
(* enumerate_fragments (cozy/syntax_tools.py:403-611).  SpecFragments      *)
(* draws a typechecked expression and enumerates its fragments.  A         *)
(* fragment is a record [a, x, r, bound]; the closure r is kept as the     *)
(* sequence of the rebuilding steps it is composed of, the outermost       *)
(* first, and applied by Apply.  The children of an object that are not    *)
(* ADTs (strings, numbers, tuples) are kept as nodes of the tags "object"  *)
(* and "tuple".                                                            *)
(***************************************************************************)
MaxFragDepth == 2

WithType(e, t) == [e EXCEPT !.type = t]
IntX == WithType(VarX, INT)
IntOne == WithType(ENum, INT)
ECond(cond, then_branch, else_branch) ==
    Node("ECond", NoId, <<cond, then_branch, else_branch>>, INT)
EFilter(e, p) == Node("EFilter", NoId, <<e, p>>, TBag)
EStateVar(e) == Node("EStateVar", NoId, <<e>>, INT)
Obj(v) == Node("object", v, <<>>, NoType)
Tuple(t) == Node("tuple", NoId, t, NoType)

FragLeaves == {IntX, IntOne}

\* the expressions of depth d at most that have one child of depth d - 1
\* at most and leaves for the other children
RECURSIVE FragExps(_)
FragExps(d) ==
    IF d = 0 THEN FragLeaves
    ELSE LET S == FragExps(d - 1)
             L == FragLeaves
         IN  S \cup {WithType(EBinOp(a, b), INT) : a \in S, b \in L}
               \cup {WithType(EBinOp(b, a), INT) : a \in S, b \in L}
               \cup {ECond(a, b, c) : a \in S, b \in L, c \in L}
               \cup {ECond(b, a, c) : a \in S, b \in L, c \in L}
               \cup {ECond(b, c, a) : a \in S, b \in L, c \in L}
               \cup {EFilter(a, ELambda(IntX, b)) : a \in S, b \in L}
               \cup {EFilter(b, ELambda(IntX, a)) : a \in S, b \in L}
               \cup {EStateVar(a) : a \in S}
               \cup {WithType(ETuple(<<a>>), INT) : a \in S}
               \cup {WithType(ETuple(<<a, b>>), INT) : a \in S, b \in L}
               \cup {WithType(ETuple(<<b, a>>), INT) : a \in S, b \in L}

\* children (common.py:471-472) of the variants visit_ADT handles
children(obj) ==
    CASE obj.tag = "EVar"   -> <<Obj(obj.op)>>
      [] obj.tag = "ENum"   -> <<Obj(obj.op)>>
      [] obj.tag = "EBinOp" -> <<obj.kids[1], Obj(obj.op), obj.kids[2]>>
      [] obj.tag = "ETuple" -> <<Tuple(obj.kids)>>

\* rebuild, lines 535-539: type(obj)(*new_children).with_type(obj.type)
rebuild(obj, new_children) ==
    CASE obj.tag = "EVar"   -> Node("EVar", new_children[1].op, <<>>, obj.type)
      [] obj.tag = "ENum"   -> Node("ENum", new_children[1].op, <<>>, obj.type)
      [] obj.tag = "EBinOp" ->
            Node("EBinOp", new_children[2].op, <<new_children[1], new_children[3]>>, obj.type)
      [] obj.tag = "ETuple" -> Node("ETuple", NoId, new_children[1].kids, obj.type)

\* one step of a closure r: what the lambda the visitor yields does with
\* the value y the inner closure returns
Step(f, obj, i) == [f |-> f, obj |-> obj, i |-> i]

Plug(step, y) ==
    LET obj == step.obj
    IN  CASE step.f = "rebuild"   -> rebuild(obj, [children(obj) EXCEPT ![step.i] = y])
          [] step.f = "tuple"     -> Tuple([obj.kids EXCEPT ![step.i] = y])
          [] step.f = "ELambda"   -> ELambda(obj.kids[1], y)
          [] step.f = "EStateVar" -> WithType(EStateVar(y), obj.type)
          [] step.f = "EFilter.e" -> WithType(EFilter(y, obj.kids[2]), obj.type)
          [] step.f = "EFilter.p" -> WithType(EFilter(obj.kids[1], y), obj.type)
          [] step.f = "ECond.cond" -> WithType(ECond(y, obj.kids[2], obj.kids[3]), obj.type)
          [] step.f = "ECond.then" -> WithType(ECond(obj.kids[1], y, obj.kids[3]), obj.type)
          [] step.f = "ECond.else" -> WithType(ECond(obj.kids[1], obj.kids[2], y), obj.type)

\* r(x)
RECURSIVE Apply(_, _)
Apply(r, x) == IF r = <<>> THEN x ELSE Plug(Head(r), Apply(Tail(r), x))

\* common.identity_func
identity_func == <<>>

Fragment(a, x, r, bound) == [a |-> a, x |-> x, r |-> r, bound |-> bound]

\* the fragments infos with their closures wrapped in one more step
Wrapped(infos, step) == [n \in DOMAIN infos |-> [infos[n] EXCEPT !.r = <<step>> \o @]]

\* EDeepIn, lines 420-424
EDeepIn(x, bag) ==
    LET arg == WithType(EVar(<<"_fragarg", 0>>), x.type)
    IN  Node("EUnaryOp", <<"any", 0>>,
             <<Node("EMap", NoId,
                    <<bag, ELambda(arg, Node("EBinOp", <<"===", 0>>, <<arg, x>>, BOOL))>>,
                    TBag)>>,
             BOOL)

\* syntax.ENot (syntax.py:196-199)
ENot(e) ==
    IF e.tag = "EUnaryOp" /\ e.op = <<"not", 0>> THEN e.kids[1]
    ELSE Node("EUnaryOp", <<"not", 0>>, <<e>>, BOOL)

\* intro_vars, lines 440-448 (with common.extend_multi, common.py:480-511): the assumptions and the bound variables
\* inside the with block
intro_vars_assumptions(assumptions, var) ==
    SelectSeq(assumptions, LAMBDA a : var.op \notin free_vars(a))

intro_vars_bound(bound, var) ==
    IF \E n \in DOMAIN bound : bound[n] = var THEN bound ELSE Append(bound, var)

RECURSIVE FE_visit(_, _, _)

\* lines 458-465
recurse_with_assumptions_about_bound_var(e, assume, assumptions, bound) ==
    <<Fragment(assumptions, e, identity_func, bound)>>
    \o Wrapped(FE_visit(e.kids[2],
                        intro_vars_assumptions(assumptions, e.kids[1]) \o assume,
                        intro_vars_bound(bound, e.kids[1])),
               Step("ELambda", e, 0))

\* lines 467-469
FE_visit_ELambda(obj, assumptions, bound) ==
    recurse_with_assumptions_about_bound_var(obj, <<>>, assumptions, bound)

\* lines 471-490: the bound variables are cleared for the child
FE_visit_EStateVar(e, assumptions, bound) ==
    <<Fragment(assumptions, e, identity_func, bound)>>
    \o Wrapped(FE_visit(e.kids[1], assumptions, <<>>), Step("EStateVar", e, 0))

\* lines 492-498
FE_visit_EFilter(e, assumptions, bound) ==
    LET p == e.kids[2]
        assume == IF p.kids[1].op \notin free_vars(e.kids[1])
                  THEN <<EDeepIn(p.kids[1], e.kids[1])>> ELSE <<>>
    IN  <<Fragment(assumptions, e, identity_func, bound)>>
        \o Wrapped(FE_visit(e.kids[1], assumptions, bound), Step("EFilter.e", e, 0))
        \o Wrapped(recurse_with_assumptions_about_bound_var(p, assume, assumptions, bound),
                   Step("EFilter.p", e, 0))

\* lines 524-533
FE_visit_ECond(e, assumptions, bound) ==
    <<Fragment(assumptions, e, identity_func, bound)>>
    \o Wrapped(FE_visit(e.kids[1], assumptions, bound), Step("ECond.cond", e, 0))
    \o Wrapped(FE_visit(e.kids[2], Append(assumptions, e.kids[1]), bound),
               Step("ECond.then", e, 0))
    \o Wrapped(FE_visit(e.kids[3], Append(assumptions, ENot(e.kids[1])), bound),
               Step("ECond.else", e, 0))

\* the loop of visit_ADT and of visit_tuple from the i-th child on
RECURSIVE FE_visit_children(_, _, _, _, _, _)
FE_visit_children(f, obj, cs, i, assumptions, bound) ==
    IF i > Len(cs) THEN <<>>
    ELSE Wrapped(FE_visit(cs[i], assumptions, bound), Step(f, obj, i))
         \o FE_visit_children(f, obj, cs, i + 1, assumptions, bound)

\* a variant that yields an object after its children
FE_visit_ADT_BottomUp(obj, assumptions, bound) ==
    FE_visit_children("rebuild", obj, children(obj), 1, assumptions, bound)
    \o <<Fragment(assumptions, obj, identity_func, bound)>>

\* lines 568-573
FE_visit_ADT(obj, assumptions, bound) ==
    <<Fragment(assumptions, obj, identity_func, bound)>>
    \o FE_visit_children("rebuild", obj, children(obj), 1, assumptions, bound)

\* lines 578-582
FE_visit_tuple(t, assumptions, bound) ==
    <<Fragment(assumptions, t, identity_func, bound)>>
    \o FE_visit_children("tuple", t, t.kids, 1, assumptions, bound)

\* lines 584-585
FE_visit_object(obj, assumptions, bound) ==
    <<Fragment(assumptions, obj, identity_func, bound)>>

\* lines 587-592 with the default pre_visit and post_visit, and the
\* dispatch of Visitor.visit (common.py:175-189)
FE_visit(obj, assumptions, bound) ==
    CASE obj.tag = "ELambda"   -> FE_visit_ELambda(obj, assumptions, bound)
      [] obj.tag = "EStateVar" -> FE_visit_EStateVar(obj, assumptions, bound)
      [] obj.tag = "EFilter"   -> FE_visit_EFilter(obj, assumptions, bound)
      [] obj.tag = "ECond"     -> FE_visit_ECond(obj, assumptions, bound)
      [] obj.tag = "tuple"     -> FE_visit_tuple(obj, assumptions, bound)
      [] obj.tag = "object"    -> FE_visit_object(obj, assumptions, bound)
      [] OTHER                 -> FE_visit_ADT(obj, assumptions, bound)

\* isinstance(x, syntax.Exp)
IsExp(x) == x.tag \notin {"object", "tuple"}

\* lines 594-611 with include_lambdas = False
enumerate_fragments(e) ==
    SelectSeq(FE_visit(e, <<>>, <<>>), LAMBDA info : IsExp(info.x) /\ info.x.tag # "ELambda")

FragInit ==
    /\ ImplIdleDriver
    /\ impl = EmptyImpl
    /\ dedup_queries = TRUE
    /\ code = CodeIdle
    /\ fresh = FreshIdle
    /\ api = ApiIdle
    /\ \E e \in FragExps(MaxFragDepth) : pure = [pc |-> "fragments", e |-> e]

FragCall ==
    /\ pure.pc = "fragments"
    /\ pure' = [pc |-> "enumerated", e |-> pure.e, frags |-> enumerate_fragments(pure.e)]
    /\ UNCHANGED <<driverVars, code, fresh, api>>

SpecFragments == FragInit /\ [][FragCall]_vars

RECURSIVE IsSubexp(_, _)
IsSubexp(x, e) == x = e \/ \E i \in DOMAIN e.kids : IsSubexp(x, e.kids[i])

\* the closure r reaches strictly deeper than the closure q
Inside(r, q) == Len(q) < Len(r) /\ SubSeq(r, 1, Len(q)) = q

MaxSimpDepth == 2

LONG == "Long"
LongBag == "Bag<Long>"
EBool(val) == Node("EBool", <<val, 0>>, <<>>, BOOL)
TrueExp == EBool("True")
FalseExp == EBool("False")
ZERO == Node("ENum", <<"0", 0>>, <<>>, INT)
ONE == Node("ENum", <<"1", 0>>, <<>>, INT)
EUnaryOp(op, e, type) == Node("EUnaryOp", <<op, 0>>, <<e>>, type)
EEq(e1, e2) == Node("EBinOp", <<"==", 0>>, <<e1, e2>>, BOOL)
ESingleton(e) == Node("ESingleton", NoId, <<e>>, LongBag)
EEmptyList == Node("EEmptyList", NoId, <<>>, LongBag)
BoolX == WithType(VarX, BOOL)
LongY == WithType(VarY, LONG)

SimpLeaves == {TrueExp, FalseExp, BoolX, LongY, EEmptyList}

\* the well-typed expressions of depth d at most that have one child of
\* depth d - 1 at most and leaves for the other children
RECURSIVE SimpExps(_)

\* SimpExps(d), d > 0, as the sequence of its parts: the expressions of
\* SimpExps(d - 1) and, variant by variant, the ones built from them
SimpFamilies(d) ==
    LET S == SimpExps(d - 1)
        L == SimpLeaves
        Of(A, t) == {x \in A : x.type = t}
        \* the pairs <<an expression of S, a leaf of its type>>
        SL == {p \in S \X L : p[1].type = p[2].type}
        LL == {p \in L \X L : p[1].type = p[2].type}
    IN  <<S,
          {EUnaryOp("not", a, BOOL) : a \in Of(S, BOOL)},
          {EUnaryOp("sum", a, LONG) : a \in Of(S, LongBag)},
          {EUnaryOp("len", a, INT) : a \in Of(S, LongBag)},
          {ESingleton(a) : a \in Of(S, LONG)},
          {WithType(ECond(c, p[1], p[2]), p[1].type) : c \in Of(S, BOOL), p \in LL},
          {WithType(ECond(c, p[1], p[2]), p[1].type) : c \in Of(L, BOOL), p \in SL},
          {WithType(ECond(c, p[2], p[1]), p[1].type) : c \in Of(L, BOOL), p \in SL},
          {EEq(p[1], p[2]) : p \in SL},
          {EEq(p[2], p[1]) : p \in SL}>>

SimpExps(d) ==
    IF d = 0 THEN SimpLeaves
    ELSE UNION {SimpFamilies(d)[i] : i \in DOMAIN SimpFamilies(d)}

\* the AssertionError of line 158
Raised == Node("AssertionError", NoId, <<>>, NoType)

RECURSIVE S_visit(_)

\* lines 33-41
S_visit_ECond(e) ==
    LET cond == S_visit(e.kids[1])
        then_branch == S_visit(e.kids[2])
        else_branch == S_visit(e.kids[3])
    IN  IF cond = Raised THEN Raised
        ELSE IF cond = TrueExp THEN then_branch
        ELSE IF cond = FalseExp THEN else_branch
        ELSE IF then_branch = Raised \/ else_branch = Raised THEN Raised
        ELSE IF alpha_equivalent(then_branch, else_branch) = "T" THEN then_branch
        ELSE WithType(ECond(cond, then_branch, else_branch), e.type)

\* lines 114-153, for the operators not, sum and len
S_visit_EUnaryOp(e) ==
    LET inner == e.kids[1]
    IN  IF inner.tag = "ECond"
        THEN S_visit(WithType(ECond(inner.kids[1],
                                    [e EXCEPT !.kids = <<inner.kids[2]>>],
                                    [e EXCEPT !.kids = <<inner.kids[3]>>]),
                              e.type))
        ELSE LET ee == S_visit(inner)
             IN  IF ee = Raised THEN Raised
                 ELSE IF e.op = <<"not", 0>> /\ ee.tag = "EBool"
                      THEN IF ee = TrueExp THEN FalseExp ELSE TrueExp
                 ELSE IF e.op \in {<<"len", 0>>, <<"sum", 0>>} /\ ee.tag = "ESingleton"
                      THEN IF e.op = <<"len", 0>> THEN ONE ELSE ee.kids[1]
                 ELSE IF e.op \in {<<"len", 0>>, <<"sum", 0>>} /\ ee.tag = "EEmptyList"
                      THEN ZERO
                 ELSE [e EXCEPT !.kids = <<ee>>]

\* lines 9-32, for the operator ==
S_visit_EBinOp(e) ==
    LET e1 == S_visit(e.kids[1])
        e2 == S_visit(e.kids[2])
    IN  IF e1 = Raised \/ e2 = Raised THEN Raised
        ELSE IF alpha_equivalent(e1, e2) = "T" THEN TrueExp
        ELSE IF e1.tag = "ECond"
             THEN S_visit(WithType(ECond(e1.kids[1],
                                         [e EXCEPT !.kids = <<e1.kids[2], e2>>],
                                         [e EXCEPT !.kids = <<e1.kids[3], e2>>]),
                                   e.type))
        ELSE IF e2.tag = "ECond"
             THEN S_visit(WithType(ECond(e2.kids[1],
                                         [e EXCEPT !.kids = <<e1, e2.kids[2]>>],
                                         [e EXCEPT !.kids = <<e1, e2.kids[3]>>]),
                                   e.type))
        ELSE LET v1 == S_visit(e1)
                 v2 == S_visit(e2)
             IN  IF v1 = Raised \/ v2 = Raised THEN Raised
                 ELSE [e EXCEPT !.kids = <<v1, v2>>]

\* BottomUpRewriter.visit_ADT and join (syntax_tools.py:45-72): the object
\* rebuilt from its visited children, with the type of the object
S_visit_ADT(e) ==
    LET new_children == [i \in DOMAIN e.kids |-> S_visit(e.kids[i])]
    IN  IF \E i \in DOMAIN new_children : new_children[i] = Raised THEN Raised
        ELSE [e EXCEPT !.kids = new_children]

\* the dispatch of Visitor.visit (common.py:175-189)
S_dispatch(e) ==
    CASE e.tag = "ECond"    -> S_visit_ECond(e)
      [] e.tag = "EUnaryOp" -> S_visit_EUnaryOp(e)
      [] e.tag = "EBinOp"   -> S_visit_EBinOp(e)
      [] OTHER              -> S_visit_ADT(e)

\* _V.visit, lines 154-163, with debug off: the new expression must have
\* the type of the old one
S_visit(e) ==
    LET new == S_dispatch(e)
    IN  IF new = Raised THEN Raised
        ELSE IF new.type # e.type THEN Raised
        ELSE new

SimpRes(raised, value) == [raised |-> raised, value |-> value]

\* a variant that returns the simplified expression whatever the solver says
simplify_Unvalidated(e, confirmed) ==
    LET new == S_visit(e)
    IN  IF new = Raised THEN SimpRes(TRUE, e) ELSE SimpRes(FALSE, new)

\* simplify, lines 165-179, with validate = True; confirmed is the solver's
\* answer to valid(orig === e)
simplify(e, confirmed) ==
    LET new == S_visit(e)
    IN  IF new = Raised THEN SimpRes(TRUE, e)
        ELSE IF ~confirmed THEN SimpRes(FALSE, e)
        ELSE SimpRes(FALSE, new)

SimpInit ==
    /\ ImplIdleDriver
    /\ impl = EmptyImpl
    /\ dedup_queries = TRUE
    /\ code = CodeIdle
    /\ fresh = FreshIdle
    /\ api = ApiIdle
    /\ \E i \in DOMAIN SimpFamilies(MaxSimpDepth) :
          \E e \in SimpFamilies(MaxSimpDepth)[i], confirmed \in BOOLEAN :
              pure = [pc |-> "simplify", e |-> e, valid |-> confirmed]

SimplifyCall ==
    /\ pure.pc = "simplify"
    /\ pure' = [pc |-> "simplified", e |-> pure.e, valid |-> pure.valid,
                res |-> simplify(pure.e, pure.valid)]
    /\ UNCHANGED <<driverVars, code, fresh, api>>

SpecSimplify == SimpInit /\ [][SimplifyCall]_vars

\* C26: simplify(e, validate=True) never returns an expression the solver
\* does not confirm equal to e: when valid(e === simplified) is false it
\* returns e unchanged, and otherwise it returns the simplified expression,
\* whose type is the type of e.
C26_SimplifyValidated ==
    (pure.pc = "simplified" /\ ~pure.res.raised) =>
        IF pure.valid
        THEN pure.res.value = S_visit(pure.e) /\ pure.res.value.type = pure.e.type
        ELSE pure.res.value = pure.e

\* the solver rejects the rewriting of "not true" to "false", and simplify
\* returns "not true"
C26_Witness ==
    /\ pure.pc = "simplified"
    /\ pure.e = EUnaryOp("not", TrueExp, BOOL)
    /\ S_visit(pure.e) = FalseExp
    /\ ~pure.valid
    /\ ~pure.res.raised
    /\ pure.res.value = pure.e

(***************************************************************************)
(* The objects improve_implementation shares with its caller               *)
(* (high_level_interface.py:42-51, 124-131, 154-175).  SpecShared keeps    *)
(* the Query objects in a heap: an Implementation's query_specs and        *)
(* query_impls hold addresses, so that the caller's Implementation `arg`   *)
(* and the defensive copy `impl` can hold the same objects.  wrap_naked_   *)
(* statevars and rewrite_ret are not part of the sources at hand and       *)
(* follow the specification: a state variable outside every EStateVar      *)
(* barrier is put inside one, and rewrite_ret builds a new Query.          *)
(***************************************************************************)
MaxQueryObjs == 2

StateS == WithType(EVar(<<"s", 0>>), INT)
\* impl.abstract_state (impls.py:103-105)
abstract_state == {StateS.op}

\* the rets of the queries of a specification: they read the abstract state
\* and the argument x
Rets == {StateS, VarX, ENum, EBinOp(StateS, VarX), EBinOp(VarX, StateS),
         EStateVar(StateS), EBinOp(EStateVar(StateS), VarX)}

QueryName == <<"q1", "q2", "q3">>

RECURSIVE wrap_naked_statevars(_, _)
wrap_naked_statevars(e, state) ==
    IF e.tag = "EVar" THEN IF e.op \in state THEN WithType(EStateVar(e), e.type) ELSE e
    ELSE IF e.tag = "EStateVar" THEN e
    ELSE [e EXCEPT !.kids = [i \in DOMAIN e.kids |-> wrap_naked_statevars(e.kids[i], state)]]

\* the Implementation construct_initial_implementation builds for the
\* queries of the rets given (impls.py:87-97, 193): query_specs holds the
\* specification's Query objects, at the addresses 1..n, and query_impls
\* new objects, at the addresses n+1..2n, whose rets are wrapped
InitialHeap(rets) ==
    [a \in 1..(2 * Len(rets)) |->
        IF a <= Len(rets)
        THEN Method("Query", QueryName[a], <<VarX.op>>, <<>>, rets[a])
        ELSE Method("Query", QueryName[a - Len(rets)], <<VarX.op>>, <<>>,
                    wrap_naked_statevars(rets[a - Len(rets)], abstract_state))]

InitialShared(rets) ==
    [concrete_state |-> <<>>,
     query_specs    |-> [i \in 1..Len(rets) |-> i],
     query_impls    |-> [i \in 1..Len(rets) |-> <<QueryName[i], Len(rets) + i>>],
     updates        |-> <<>>,
     handle_updates |-> <<>>]

\* syntax_tools.shallow_copy (lines 83-84): a new object with the children
\* of the old one
shallow_copy(heap, a) == Append(heap, heap[a])

\* ImproveQueryJob.__init__, lines 42-51: the job keeps a shallow copy of q,
\* and the ret of q itself is rewritten
ImproveQueryJob(heap, a) ==
    LET copied == shallow_copy(heap, a)
    IN  [copied EXCEPT ![a].body = wrap_naked_statevars(copied[a].body, abstract_state)]

\* reconcile_jobs, lines 154-166: a job for every query of query_specs that
\* has none, in the order of query_specs
RECURSIVE NewJobsFrom(_, _, _)
NewJobsFrom(heap, specs, i) ==
    IF i > Len(specs) THEN heap
    ELSE NewJobsFrom(ImproveQueryJob(heap, specs[i]), specs, i + 1)

SharedInit ==
    /\ ImplIdleDriver
    /\ impl = EmptyImpl
    /\ dedup_queries = TRUE
    /\ code = CodeIdle
    /\ fresh = FreshIdle
    /\ api = ApiIdle
    /\ \E n \in 1..MaxQueryObjs : \E rets \in [1..n -> Rets] :
          pure = [pc |-> "called", heap |-> InitialHeap(rets), arg |-> InitialShared(rets),
                  impl |-> InitialShared(<<>>), jobs |-> <<>>,
                  before |-> [heap |-> InitialHeap(rets), arg |-> InitialShared(rets)]]

\* lines 124-131: the containers are copied, the objects in them are not
DefensiveCopy ==
    /\ pure.pc = "called"
    /\ pure' = [pure EXCEPT !.pc = "copied", !.impl = pure.arg]
    /\ UNCHANGED <<driverVars, code, fresh, api>>

\* line 175: the first reconcile_jobs
StartJobs ==
    /\ pure.pc = "copied"
    /\ pure' = [pure EXCEPT !.pc = "started",
                            !.heap = NewJobsFrom(pure.heap, pure.impl.query_specs, 1),
                            !.jobs = [i \in DOMAIN pure.impl.query_specs |->
                                         Len(pure.heap) + i]]
    /\ UNCHANGED <<driverVars, code, fresh, api>>

\* line 241, impl.set_impl(q, new_rep, new_ret) for a result of the job of
\* the i-th query (impls.py:192-193): concrete_state grows and query_impls
\* gets a new Query object
ApplyResult(i) ==
    /\ pure.pc = "started"
    /\ i \in DOMAIN pure.impl.query_specs
    /\ Len(pure.impl.concrete_state) < MaxQueryObjs
    /\ LET q == pure.heap[pure.impl.query_specs[i]]
           v == <<"_var", Len(pure.impl.concrete_state) + 1>>
           new == Method("Query", q.name, q.args, <<>>, EVar(v))
       IN  pure' = [pure EXCEPT
                       !.heap = Append(@, new),
                       !.impl.concrete_state = Append(@, <<v, q.body>>),
                       !.impl.query_impls = [n \in DOMAIN @ |->
                            IF @[n][1] = q.name THEN <<q.name, Len(pure.heap) + 1>> ELSE @[n]]]
    /\ UNCHANGED <<driverVars, code, fresh, api>>

\* line 252
ReturnImpl ==
    /\ pure.pc = "started"
    /\ pure' = [pure EXCEPT !.pc = "returned"]
    /\ UNCHANGED <<driverVars, code, fresh, api>>

SharedNext ==
    \/ DefensiveCopy
    \/ StartJobs
    \/ \E i \in 1..MaxQueryObjs : ApplyResult(i)
    \/ ReturnImpl

SpecShared == SharedInit /\ [][SharedNext]_vars

\* the addresses of the Query objects an Implementation holds
Held(I) == {I.query_specs[i] : i \in DOMAIN I.query_specs}
           \cup {I.query_impls[i][2] : i \in DOMAIN I.query_impls}

\* C27: improve_implementation leaves its argument unchanged: after the
\* call the Implementation passed in has the concrete_state, query_specs,
\* query_impls, updates and handle_updates it had before, and every Query
\* object it holds has the ret and the assumptions it had before.
C27_ArgumentUnchanged ==
    pure.pc = "returned" =>
        /\ pure.arg = pure.before.arg
        /\ \A a \in Held(pure.arg) :
              /\ pure.heap[a].body = pure.before.heap[a].body
              /\ pure.heap[a].assumptions = pure.before.heap[a].assumptions

\* the call returned, and the ret "s + x" of the caller's first query has
\* become "EStateVar(s) + x"
C27_CallerQueryRewritten ==
    /\ pure.pc = "returned"
    /\ pure.before.heap[pure.arg.query_specs[1]].body = EBinOp(StateS, VarX)
    /\ pure.heap[pure.arg.query_specs[1]].body = EBinOp(EStateVar(StateS), VarX)

(***************************************************************************)
(* C29: the results of the jobs the main loop has seen done.               *)
(***************************************************************************)
\* the result at position n of batch is in imps or a later result of the
\* batch is for the same query
KeptOrSuperseded(batch, n, imps) ==
    \/ \E m \in DOMAIN imps : imps[m] = batch[n]
    \/ \E m \in DOMAIN batch : m > n /\ batch[m].q = batch[n].q

\* the results in the channel whose job the main loop has seen done
ObservedPending == {n \in DOMAIN solutions_q : job[solutions_q[n].q].observed}

C29_Step ==
    /\ (pc' = "returned" /\ ~timedOut') =>
           /\ \A n \in DOMAIN solutions_q' : ~job'[solutions_q'[n].q].observed
           /\ improvements' = <<>>
    /\ (pc = "drain" /\ pc' # pc /\ ObservedPending # {}) =>
           /\ solutions_q' = <<>>
           /\ results' = solutions_q
           /\ \A n \in DOMAIN solutions_q : KeptOrSuperseded(solutions_q, n, improvements')
    /\ (pc = "apply" /\ improvements # <<>> /\ pc' # pc) =>
           /\ Head(improvements).q \in Names(impl.query_specs)
           /\ applied' = Append(applied, Head(improvements))
           /\ improvements' = Tail(improvements)
    /\ (pc = "apply" /\ improvements # <<>> /\ pc' = pc /\ improvements' # improvements) =>
           /\ Head(improvements).q \notin Names(impl.query_specs)
           /\ improvements' = Tail(improvements)
           /\ impl' = impl

\* C29: when improve_implementation returns without the timeout having
\* elapsed, no result of a job that the main loop observed as done is left in
\* the channel or in the batch: the drain that follows the observation takes
\* the whole channel, every drained result is kept in the batch or superseded
\* by a later result for the same query, and every result of the batch is
\* applied through set_impl or skipped because its query is no longer in
\* query_specs.
C29_NoResultLost == [][C29_Step]_vars

\* the run has returned without a timeout, a job was observed done, the
\* channel is empty and a drained result was applied
C29_Witness ==
    /\ pc = "returned"
    /\ ~timedOut
    /\ \E j \in DOMAIN job : job[j].observed
    /\ solutions_q = <<>>
    /\ last_completed # InitialImpl

(***************************************************************************)
(* integer_log2_round_up (cozy/common.py), one loop iteration per step.    *)
(***************************************************************************)
\* the largest argument of integer_log2_round_up
MaxLog2Input == 16
\* the iterations of the loop that are followed
MaxLog2Steps == 8

\* common.py:523-526, for arguments that pass the two assertions
divide_integers_and_round_up(x, y) == ((x - 1) \div y) + 1

Log2Init ==
    /\ ImplIdleDriver
    /\ impl = EmptyImpl
    /\ dedup_queries = TRUE
    /\ code = CodeIdle
    /\ fresh = FreshIdle
    /\ api = ApiIdle
    /\ \E x \in 0..MaxLog2Input :
          pure = [pc |-> "call", arg |-> x, x |-> x, res |-> 0]

\* lines 533-534: assert x > 0; res = 0
Log2Call ==
    /\ pure.pc = "call"
    /\ pure' = [pure EXCEPT !.pc = IF pure.x > 0 THEN "loop" ELSE "raised",
                            !.res = 0]
    /\ UNCHANGED <<driverVars, code, fresh, api>>

\* lines 535-538: the test `while x`, then either the body (with the
\* assertions of divide_integers_and_round_up) or `return res`
Log2Iter ==
    /\ pure.pc = "loop"
    /\ pure.res < MaxLog2Steps
    /\ pure' = IF pure.x = 0
               THEN [pure EXCEPT !.pc = "returned"]
               ELSE IF pure.x > 0
                    THEN [pure EXCEPT !.res = @ + 1,
                                      !.x = divide_integers_and_round_up(pure.x, 2)]
                    ELSE [pure EXCEPT !.res = @ + 1, !.pc = "raised"]
    /\ UNCHANGED <<driverVars, code, fresh, api>>

Log2Next ==
    \/ Log2Call
    \/ Log2Iter

SpecLog2 == Log2Init /\ [][Log2Next]_vars

\* log2(x) rounded up: the least n with 2^n >= x
Log2RoundedUp(x) == CHOOSE n \in 0..x : 2^n >= x /\ \A m \in 0..(n - 1) : 2^m < x

\* C30: a call integer_log2_round_up(x) with x > 0 counts no more
\* iterations than log2(x) rounded up, the value it is to return, and when
\* it has returned its result is that value.
C30_Log2RoundedUp ==
    (pure.pc \in {"loop", "returned"} /\ pure.arg > 0) =>
        /\ pure.res <= Log2RoundedUp(pure.arg)
        /\ pure.pc = "returned" => pure.res = Log2RoundedUp(pure.arg)

\* the loop has run as long as it was followed and x is still 1
C30_LoopStuckAtOne ==
    /\ pure.pc = "loop"
    /\ pure.arg > 0
    /\ pure.x = 1
    /\ pure.res = MaxLog2Steps

====
